---- MODULE Spec2Model ----
(***************************************************************************)
(* Model of the M4K chess engine: the board representation and move        *)
(* machinery (bitboard/position.rs, movegen/generator.rs,                  *)
(* movegen/legal.rs) and the UCI protocol driver with its search worker    *)
(* threads (uci/protocol.rs).                                              *)
(*                                                                         *)
(* A Bitboard (u64) is modelled as the set of squares whose bit is set;    *)
(* an Option<T> as the empty sequence (None) or a one-element sequence     *)
(* (Some(x)); a MoveList as a sequence of moves in push order.             *)
(* Sliding attacks are those of the non-aarch64 build (magic tables,       *)
(* which init_magics fills from the ray walk of magic.rs).                 *)
(***************************************************************************)
EXTENDS Integers, Sequences, FiniteSets, TLC

----------------------------------------------------------------------------
(* bitboard/types.rs *)

Pawn == 0
Knight == 1
Bishop == 2
Rook == 3
Queen == 4
King == 5

White == 0
Black == 1

A1 == 0
B1 == 1
C1 == 2
D1 == 3
E1 == 4
F1 == 5
G1 == 6
H1 == 7
A8 == 56
B8 == 57
C8 == 58
D8 == 59
E8 == 60
F8 == 61
G8 == 62
H8 == 63

WHITE_KING == 1
WHITE_QUEEN == 2
BLACK_KING == 4
BLACK_QUEEN == 8

Squares == 0..63
Pieces == 0..5
Colors == {White, Black}

None == <<>>
Some(x) == <<x>>

\* Square::new(file, rank)
SquareNew(file, rank) == rank * 8 + file
\* Square::file
FileOf(sq) == sq % 8
\* Square::rank
RankOf(sq) == sq \div 8

\* Color::opposite
opposite(color) == IF color = White THEN Black ELSE White

\* CastleRights::ALL / NONE as sets of the single-bit flags
CastleAll == {WHITE_KING, WHITE_QUEEN, BLACK_KING, BLACK_QUEEN}
CastleNone == {}

\* The squares 0..63 in ascending order: BitboardIter pops the lowest bit first.
SquareSeq == [i \in 1..64 |-> i - 1]
\* Bitboard::iter: the set bits in ascending order
BitboardIter(bb) == SelectSeq(SquareSeq, LAMBDA s : s \in bb)
\* Bitboard::lsb
lsb(bb) == IF bb = {} THEN None ELSE Some(CHOOSE s \in bb : \A t \in bb : s <= t)

----------------------------------------------------------------------------
(* bitboard/attacks.rs, bitboard/magic.rs *)

OnBoard(r, f) == r >= 0 /\ r < 8 /\ f >= 0 /\ f < 8

\* generate_knight_attacks / generate_king_attacks: the on-board targets of a delta list
DeltaAttacks(sq, deltas) ==
    { (RankOf(sq) + d[1]) * 8 + (FileOf(sq) + d[2]) :
        d \in { e \in deltas : OnBoard(RankOf(sq) + e[1], FileOf(sq) + e[2]) } }

KnightDeltas == { <<-2, -1>>, <<-2, 1>>, <<-1, -2>>, <<-1, 2>>,
                  <<1, -2>>, <<1, 2>>, <<2, -1>>, <<2, 1>> }
KingDeltas == { <<-1, -1>>, <<-1, 0>>, <<-1, 1>>, <<0, -1>>,
                <<0, 1>>, <<1, -1>>, <<1, 0>>, <<1, 1>> }

knight_attacks(sq) == DeltaAttacks(sq, KnightDeltas)
king_attacks(sq) == DeltaAttacks(sq, KingDeltas)

\* generate_pawn_attacks: sq+7 / sq+9 for white, sq-9 / sq-7 for black, kept when
\* the target index is below 64 (the black subtraction wraps to a huge usize below 0)
pawn_attacks(sq, color) ==
    IF color = White
    THEN { t \in { sq + 7 } : FileOf(sq) > 0 /\ t < 64 }
         \cup { t \in { sq + 9 } : FileOf(sq) < 7 /\ t < 64 }
    ELSE { t \in { sq - 9 } : FileOf(sq) > 0 /\ t >= 0 }
         \cup { t \in { sq - 7 } : FileOf(sq) < 7 /\ t >= 0 }

\* One ray of generate_*_attacks_slow: walk from (r, f) by (dr, df), add each
\* square, stop after the first occupied one.
RECURSIVE RayWalk(_, _, _, _, _)
RayWalk(r, f, dr, df, occupied) ==
    IF ~OnBoard(r, f) THEN {}
    ELSE IF (r * 8 + f) \in occupied THEN { r * 8 + f }
    ELSE { r * 8 + f } \cup RayWalk(r + dr, f + df, dr, df, occupied)

BishopDirections == { <<-1, -1>>, <<-1, 1>>, <<1, -1>>, <<1, 1>> }
RookDirections == { <<-1, 0>>, <<1, 0>>, <<0, -1>>, <<0, 1>> }

SlowAttacks(sq, occupied, directions) ==
    UNION { RayWalk(RankOf(sq) + d[1], FileOf(sq) + d[2], d[1], d[2], occupied) :
            d \in directions }

bishop_attacks(sq, occupied) == SlowAttacks(sq, occupied, BishopDirections)
rook_attacks(sq, occupied) == SlowAttacks(sq, occupied, RookDirections)
queen_attacks(sq, occupied) == bishop_attacks(sq, occupied) \cup rook_attacks(sq, occupied)

----------------------------------------------------------------------------
(* movegen/generator.rs: Move *)

\* Move::new / promotion / en_passant / castling. The two promotion bits are 0
\* (Queen) for every move that is not built by Move::promotion.
MoveNew(from, to) == [from |-> from, to |-> to, move_type |-> "Normal", promo |-> Queen]
MovePromotion(from, to, piece) ==
    [from |-> from, to |-> to, move_type |-> "Promotion",
     promo |-> IF piece \in {Queen, Rook, Bishop, Knight} THEN piece ELSE Queen]
MoveEnPassant(from, to) == [from |-> from, to |-> to, move_type |-> "EnPassant", promo |-> Queen]
MoveCastling(from, to) == [from |-> from, to |-> to, move_type |-> "Castling", promo |-> Queen]

----------------------------------------------------------------------------
(* bitboard/position.rs *)

EmptyPieces == [p \in Pieces |-> [c \in Colors |-> {}]]

\* Position::empty
PositionEmpty ==
    [pieces |-> EmptyPieces, side_to_move |-> White, castling_rights |-> CastleNone,
     en_passant |-> None, halfmove_clock |-> 0, fullmove_number |-> 1]

\* Position::set_piece / remove_piece on the piece layers
set_piece(pcs, piece, color, sq) == [pcs EXCEPT ![piece][color] = @ \cup {sq}]
remove_piece(pcs, piece, color, sq) == [pcs EXCEPT ![piece][color] = @ \ {sq}]

\* Position::piece_bb
piece_bb(pos, piece, color) == pos.pieces[piece][color]

\* Position::set_startpos
StartPieces ==
    [p \in Pieces |-> [c \in Colors |->
        LET back == IF c = White THEN 0 ELSE 56
        IN  CASE p = Pawn   -> { SquareNew(f, IF c = White THEN 1 ELSE 6) : f \in 0..7 }
              [] p = Knight -> { back + 1, back + 6 }
              [] p = Bishop -> { back + 2, back + 5 }
              [] p = Rook   -> { back, back + 7 }
              [] p = Queen  -> { back + 3 }
              [] p = King   -> { back + 4 } ]]

set_startpos ==
    [pieces |-> StartPieces, side_to_move |-> White, castling_rights |-> CastleAll,
     en_passant |-> None, halfmove_clock |-> 0, fullmove_number |-> 1]

\* `for piece in 0..6 { if pieces[piece][color].is_occupied(sq) { ...; break } }`
FirstPieceAt(pcs, color, sq) ==
    LET S == { p \in Pieces : sq \in pcs[p][color] }
    IN  IF S = {} THEN None ELSE Some(CHOOSE p \in S : \A q \in S : p <= q)

\* The rook relocation of a castling move, `match (from, to)`; rookFrom/rookTo are
\* swapped by unmake_move.
CastleRookMove(pcs, from, to, undoing) ==
    LET mv(color, a, b) ==
            IF undoing
            THEN set_piece(remove_piece(pcs, Rook, color, b), Rook, color, a)
            ELSE set_piece(remove_piece(pcs, Rook, color, a), Rook, color, b)
    IN  CASE from = E1 /\ to = G1 -> mv(White, H1, F1)
          [] from = E1 /\ to = C1 -> mv(White, A1, D1)
          [] from = E8 /\ to = G8 -> mv(Black, H8, F8)
          [] from = E8 /\ to = C8 -> mv(Black, A8, D8)
          [] OTHER -> pcs

\* The castling-rights update of make_move: `match from`, then `match to`
RightsAfter(rights, from, to) ==
    LET byFrom == CASE from = E1 -> rights \ {WHITE_KING, WHITE_QUEEN}
                    [] from = E8 -> rights \ {BLACK_KING, BLACK_QUEEN}
                    [] from = A1 -> rights \ {WHITE_QUEEN}
                    [] from = H1 -> rights \ {WHITE_KING}
                    [] from = A8 -> rights \ {BLACK_QUEEN}
                    [] from = H8 -> rights \ {BLACK_KING}
                    [] OTHER -> rights
    IN  CASE to = A1 -> byFrom \ {WHITE_QUEEN}
          [] to = H1 -> byFrom \ {WHITE_KING}
          [] to = A8 -> byFrom \ {BLACK_QUEEN}
          [] to = H8 -> byFrom \ {BLACK_KING}
          [] OTHER -> byFrom

\* The square of the pawn an en-passant move captures: (to.file, to.rank -/+ 1)
EpCapturedSquare(color, to) ==
    SquareNew(FileOf(to), IF color = White THEN RankOf(to) - 1 ELSE RankOf(to) + 1)

Abs(x) == IF x < 0 THEN -x ELSE x

\* Position::make_move. Returns the new position and the Undo; panicked is TRUE
\* when `expect("No moving piece found on from square")` fails.
make_move(pos, mv) ==
    LET from == mv.from
        to == mv.to
        color == pos.side_to_move
        opp == opposite(color)
        moving == FirstPieceAt(pos.pieces, color, from)
    IN  IF moving = None
        THEN [pos |-> pos, panicked |-> TRUE,
              undo |-> [mv |-> mv, captured |-> None,
                        prev_castling |-> pos.castling_rights,
                        prev_en_passant |-> pos.en_passant,
                        prev_halfmove |-> pos.halfmove_clock]]
        ELSE
        LET moving_piece == moving[1]
            hit == FirstPieceAt(pos.pieces, opp, to)
            p1 == IF hit = None THEN pos.pieces
                  ELSE remove_piece(pos.pieces, hit[1], opp, to)
            p2 == remove_piece(p1, moving_piece, color, from)
            p3 == CASE mv.move_type = "Normal" -> set_piece(p2, moving_piece, color, to)
                    [] mv.move_type = "Promotion" ->
                         set_piece(remove_piece(p2, Pawn, color, from), mv.promo, color, to)
                    [] mv.move_type = "EnPassant" ->
                         remove_piece(set_piece(p2, moving_piece, color, to),
                                      Pawn, opp, EpCapturedSquare(color, to))
                    [] mv.move_type = "Castling" ->
                         CastleRookMove(set_piece(p2, moving_piece, color, to),
                                        from, to, FALSE)
            captured == IF mv.move_type = "EnPassant" THEN Some(Pawn) ELSE hit
            ep == IF moving_piece = Pawn /\ Abs(RankOf(from) - RankOf(to)) = 2
                  THEN Some(SquareNew(FileOf(from), (RankOf(from) + RankOf(to)) \div 2))
                  ELSE None
        IN  [pos |-> [pieces |-> p3,
                      side_to_move |-> opp,
                      castling_rights |-> RightsAfter(pos.castling_rights, from, to),
                      en_passant |-> ep,
                      halfmove_clock |-> IF moving_piece = Pawn \/ captured # None
                                         THEN 0 ELSE pos.halfmove_clock + 1,
                      fullmove_number |-> IF color = Black
                                          THEN pos.fullmove_number + 1
                                          ELSE pos.fullmove_number],
             panicked |-> FALSE,
             undo |-> [mv |-> mv, captured |-> captured,
                       prev_castling |-> pos.castling_rights,
                       prev_en_passant |-> pos.en_passant,
                       prev_halfmove |-> pos.halfmove_clock]]

\* Position::unmake_move. panicked is TRUE when
\* `expect("No moving piece found on to square")` fails.
unmake_move(pos, undo) ==
    LET from == undo.mv.from
        to == undo.mv.to
        color == opposite(pos.side_to_move)
        opp == opposite(color)
        moving == FirstPieceAt(pos.pieces, color, to)
        restored == [pos EXCEPT !.side_to_move = color,
                                !.fullmove_number = IF color = Black THEN @ - 1 ELSE @,
                                !.halfmove_clock = undo.prev_halfmove,
                                !.castling_rights = undo.prev_castling,
                                !.en_passant = undo.prev_en_passant]
    IN  IF moving = None
        THEN [pos |-> restored, panicked |-> TRUE]
        ELSE
        LET moving_piece == moving[1]
            p1 == remove_piece(pos.pieces, moving_piece, color, to)
            p2 == IF undo.captured = None THEN p1
                  ELSE set_piece(p1, undo.captured[1], opp, to)
            p3 == CASE undo.mv.move_type = "Normal" -> set_piece(p2, moving_piece, color, from)
                    [] undo.mv.move_type = "Promotion" ->
                         set_piece(remove_piece(p2, moving_piece, color, to), Pawn, color, from)
                    [] undo.mv.move_type = "EnPassant" ->
                         set_piece(set_piece(p2, moving_piece, color, from),
                                   Pawn, opp, EpCapturedSquare(color, to))
                    [] undo.mv.move_type = "Castling" ->
                         CastleRookMove(set_piece(p2, moving_piece, color, from),
                                        from, to, TRUE)
        IN  [pos |-> [restored EXCEPT !.pieces = p3], panicked |-> FALSE]

\* `(0..6).fold(EMPTY, |acc, p| acc | piece_bb(p, White) | piece_bb(p, Black))`
Occupied(pos) == UNION { pos.pieces[p][c] : p \in Pieces, c \in Colors }
\* `(0..6).fold(EMPTY, |acc, p| acc | piece_bb(p, color))`
ColorPieces(pos, color) == UNION { pos.pieces[p][color] : p \in Pieces }

----------------------------------------------------------------------------
(* movegen/generator.rs: pseudo-legal generators. Each returns the moves it
   pushes, in push order. *)

\* The elements of a sequence
SeqToSet(seq) == { seq[i] : i \in 1..Len(seq) }

\* Concatenation of a sequence of sequences
RECURSIVE Flatten(_)
Flatten(ss) == IF ss = <<>> THEN <<>> ELSE Head(ss) \o Flatten(Tail(ss))

\* One Move::new(from, t) per set bit t of targets, lowest bit first
MovesTo(from, targets) ==
    LET ts == BitboardIter(targets) IN [i \in 1..Len(ts) |-> MoveNew(from, ts[i])]

\* The four promotion moves pushed for one (from, to): Queen, Rook, Bishop, Knight
PromotionMoves(from, to) ==
    << MovePromotion(from, to, Queen), MovePromotion(from, to, Rook),
       MovePromotion(from, to, Bishop), MovePromotion(from, to, Knight) >>

\* The moves generate_pawn_moves pushes for one pawn
PawnMovesOf(pawn_sq, occupied, enemies, color, en_passant) ==
    LET direction == IF color = White THEN 8 ELSE -8
        start_rank == IF color = White THEN 1 ELSE 6
        promotion_rank == IF color = White THEN 6 ELSE 1
        pawn_rank == RankOf(pawn_sq)
        target_sq == pawn_sq + direction
        double_target == pawn_sq + 2 * direction
        pushes ==
            IF target_sq \in occupied THEN <<>>
            ELSE (IF pawn_rank = promotion_rank
                  THEN PromotionMoves(pawn_sq, target_sq)
                  ELSE << MoveNew(pawn_sq, target_sq) >>)
                 \o (IF pawn_rank = start_rank /\ double_target \notin occupied
                     THEN << MoveNew(pawn_sq, double_target) >>
                     ELSE <<>>)
        capture_targets == BitboardIter(pawn_attacks(pawn_sq, color) \cap enemies)
        captures ==
            Flatten([i \in 1..Len(capture_targets) |->
                        IF pawn_rank = promotion_rank
                        THEN PromotionMoves(pawn_sq, capture_targets[i])
                        ELSE << MoveNew(pawn_sq, capture_targets[i]) >>])
        ep == IF en_passant # None /\ en_passant[1] \in pawn_attacks(pawn_sq, color)
              THEN << MoveEnPassant(pawn_sq, en_passant[1]) >>
              ELSE <<>>
    IN  pushes \o captures \o ep

generate_pawn_moves(pawns, occupied, enemies, color, en_passant) ==
    LET ps == BitboardIter(pawns)
    IN  Flatten([i \in 1..Len(ps) |-> PawnMovesOf(ps[i], occupied, enemies, color, en_passant)])

\* Knights and kings: quiet targets first, then captures
StepMovesOf(sq, attacks, occupied, enemies) ==
    MovesTo(sq, attacks \ occupied) \o MovesTo(sq, attacks \cap enemies)

generate_knight_moves(knights, occupied, enemies) ==
    LET ks == BitboardIter(knights)
    IN  Flatten([i \in 1..Len(ks) |-> StepMovesOf(ks[i], knight_attacks(ks[i]), occupied, enemies)])

\* friends = occupied & !enemies
generate_bishop_moves(bishops, occupied, enemies) ==
    LET bs == BitboardIter(bishops)
    IN  Flatten([i \in 1..Len(bs) |->
                    MovesTo(bs[i], bishop_attacks(bs[i], occupied) \ (occupied \ enemies))])

\* generate_rook_moves without the `& !friends` mask
generate_rook_moves_unmasked(rooks, occupied, enemies) ==
    LET rs == BitboardIter(rooks)
    IN  Flatten([i \in 1..Len(rs) |-> MovesTo(rs[i], rook_attacks(rs[i], occupied))])

generate_rook_moves(rooks, occupied, enemies) ==
    LET rs == BitboardIter(rooks)
    IN  Flatten([i \in 1..Len(rs) |->
                    MovesTo(rs[i], rook_attacks(rs[i], occupied) \ (occupied \ enemies))])

generate_queen_moves(queens, occupied, enemies) ==
    LET qs == BitboardIter(queens)
    IN  Flatten([i \in 1..Len(qs) |->
                    MovesTo(qs[i], queen_attacks(qs[i], occupied) \ (occupied \ enemies))])

generate_king_moves(king_sq, occupied, enemies) ==
    StepMovesOf(king_sq, king_attacks(king_sq), occupied, enemies)

\* generate_castling_moves: the right is held and the squares between king and
\* rook are empty; kingside first, then queenside
generate_castling_moves(king_sq, castle_rights, occupied, color) ==
    LET kside == IF color = White THEN WHITE_KING ELSE BLACK_KING
        qside == IF color = White THEN WHITE_QUEEN ELSE BLACK_QUEEN
        b == IF color = White THEN B1 ELSE B8
        c == IF color = White THEN C1 ELSE C8
        d == IF color = White THEN D1 ELSE D8
        f == IF color = White THEN F1 ELSE F8
        g == IF color = White THEN G1 ELSE G8
    IN  (IF kside \in castle_rights /\ f \notin occupied /\ g \notin occupied
         THEN << MoveCastling(king_sq, g) >> ELSE <<>>)
        \o
        (IF qside \in castle_rights /\ b \notin occupied /\ c \notin occupied
            /\ d \notin occupied
         THEN << MoveCastling(king_sq, c) >> ELSE <<>>)

----------------------------------------------------------------------------
(* movegen/legal.rs *)

\* compute_enemy_attacks: the union of the attack sets of enemy_color's pieces
compute_enemy_attacks(pos, enemy_color) ==
    LET occupied == Occupied(pos)
    IN  UNION { pawn_attacks(sq, enemy_color) : sq \in piece_bb(pos, Pawn, enemy_color) }
        \cup UNION { knight_attacks(sq) : sq \in piece_bb(pos, Knight, enemy_color) }
        \cup UNION { bishop_attacks(sq, occupied) : sq \in piece_bb(pos, Bishop, enemy_color) }
        \cup UNION { rook_attacks(sq, occupied) : sq \in piece_bb(pos, Rook, enemy_color) }
        \cup UNION { queen_attacks(sq, occupied) : sq \in piece_bb(pos, Queen, enemy_color) }
        \cup UNION { king_attacks(sq) : sq \in piece_bb(pos, King, enemy_color) }

\* is_legal_castling: the king's square, its transit square and its destination
\* are not attacked. `lsb().unwrap()` on a missing king is excluded by the callers.
is_legal_castling(mv, pos, color) ==
    LET king_square == lsb(piece_bb(pos, King, color))[1]
        enemy_attacks == compute_enemy_attacks(pos, opposite(color))
    IN  IF king_square \in enemy_attacks THEN FALSE
        ELSE CASE mv.from = E1 /\ mv.to = G1 -> F1 \notin enemy_attacks /\ G1 \notin enemy_attacks
               [] mv.from = E1 /\ mv.to = C1 -> D1 \notin enemy_attacks /\ C1 \notin enemy_attacks
               [] mv.from = E8 /\ mv.to = G8 -> F8 \notin enemy_attacks /\ G8 \notin enemy_attacks
               [] mv.from = E8 /\ mv.to = C8 -> D8 \notin enemy_attacks /\ C8 \notin enemy_attacks
               [] OTHER -> FALSE

\* simulate_move_and_check_king with the enemy attacks taken from the position
\* before the move instead of the clone after it
simulate_move_and_check_king_stale(mv, pos, color) ==
    LET new_position == make_move(pos, mv).pos
        enemy_attacks == compute_enemy_attacks(pos, opposite(color))
        king_square == lsb(piece_bb(new_position, King, color))[1]
    IN  king_square \notin enemy_attacks

\* simulate_move_and_check_king: make the move on a clone, then test whether the
\* mover's king is in the enemy attack set of the new position
simulate_move_and_check_king(mv, pos, color) ==
    LET new_position == make_move(pos, mv).pos
        enemy_attacks == compute_enemy_attacks(new_position, opposite(color))
        king_square == lsb(piece_bb(new_position, King, color))[1]
    IN  king_square \notin enemy_attacks

is_legal_move(mv, pos, color) ==
    IF mv.move_type = "Castling"
    THEN is_legal_castling(mv, pos, color)
    ELSE simulate_move_and_check_king(mv, pos, color)

filter_legal_moves(pseudo_legal, pos, color) ==
    SelectSeq(pseudo_legal, LAMBDA mv : is_legal_move(mv, pos, color))

----------------------------------------------------------------------------
(* search/alphabeta.rs: the move list of a node *)

\* The pseudo-legal list built at alphabeta.rs 232-276 (the same calls, in the
\* same order, are made by generate_fallback_move and generate_emergency_move)
NodePseudoLegal(pos, color) ==
    LET occupied == Occupied(pos)
        enemies == ColorPieces(pos, opposite(color))
        king == lsb(piece_bb(pos, King, color))
    IN  generate_pawn_moves(piece_bb(pos, Pawn, color), occupied, enemies, color, pos.en_passant)
        \o generate_knight_moves(piece_bb(pos, Knight, color), occupied, enemies)
        \o generate_bishop_moves(piece_bb(pos, Bishop, color), occupied, enemies)
        \o generate_rook_moves(piece_bb(pos, Rook, color), occupied, enemies)
        \o generate_queen_moves(piece_bb(pos, Queen, color), occupied, enemies)
        \o (IF king = None THEN <<>> ELSE generate_king_moves(king[1], occupied, enemies))

\* `legal_moves` of alpha_beta_search: the list its move loop enumerates
NodeLegalMoves(pos, color) == filter_legal_moves(NodePseudoLegal(pos, color), pos, color)

\* generate_fallback_move: the first legal move, if any
generate_fallback_move(pos, color) ==
    LET legal == NodeLegalMoves(pos, color)
    IN  IF legal = <<>> THEN None ELSE Some(Head(legal))

----------------------------------------------------------------------------
(* eval/material.rs, eval/pst.rs, eval/pawn.rs, eval/king_safety.rs,
   eval/evaluator.rs *)

RECURSIVE SumSeq(_)
SumSeq(xs) == IF xs = <<>> THEN 0 ELSE Head(xs) + SumSeq(Tail(xs))

\* PAWN_VALUE .. KING_VALUE, indexed by piece + 1
PIECE_VALUES == << 100, 320, 330, 500, 900, 20000 >>

\* evaluate_material: white material minus black material
evaluate_material(pos) ==
    SumSeq([i \in 1..6 |->
        (Cardinality(piece_bb(pos, i - 1, White)) - Cardinality(piece_bb(pos, i - 1, Black)))
        * PIECE_VALUES[i]])

PAWN_PST ==
    << 0, 0, 0, 0, 0, 0, 0, 0, 50, 50, 50, 50, 50, 50, 50, 50, 10, 10, 20, 30, 30, 20, 10, 10, 5, 5,
       10, 25, 25, 10, 5, 5, 0, 0, 0, 20, 20, 0, 0, 0, 5, -5, -10, 0, 0, -10, -5, 5, 5, 10, 10, -20,
       -20, 10, 10, 5, 0, 0, 0, 0, 0, 0, 0, 0 >>

KNIGHT_PST ==
    << -50, -40, -30, -30, -30, -30, -40, -50, -40, -20, 0, 0, 0, 0, -20, -40, -30, 0, 10, 15, 15, 10,
       0, -30, -30, 5, 15, 20, 20, 15, 5, -30, -30, 0, 15, 20, 20, 15, 0, -30, -30, 5, 10, 15, 15, 10,
       5, -30, -40, -20, 0, 5, 5, 0, -20, -40, -50, -40, -30, -30, -30, -30, -40, -50 >>

BISHOP_PST ==
    << -20, -10, -10, -10, -10, -10, -10, -20, -10, 0, 0, 0, 0, 0, 0, -10, -10, 0, 5, 10, 10, 5, 0,
       -10, -10, 5, 5, 10, 10, 5, 5, -10, -10, 0, 10, 10, 10, 10, 0, -10, -10, 10, 10, 10, 10, 10, 10,
       -10, -10, 5, 0, 0, 0, 0, 5, -10, -20, -10, -10, -10, -10, -10, -10, -20 >>

ROOK_PST ==
    << 0, 0, 0, 0, 0, 0, 0, 0, 5, 10, 10, 10, 10, 10, 10, 5, -5, 0, 0, 0, 0, 0, 0, -5, -5, 0, 0, 0, 0,
       0, 0, -5, -5, 0, 0, 0, 0, 0, 0, -5, -5, 0, 0, 0, 0, 0, 0, -5, -5, 0, 0, 0, 0, 0, 0, -5, 0, 0,
       0, 5, 5, 0, 0, 0 >>

QUEEN_PST ==
    << -20, -10, -10, -5, -5, -10, -10, -20, -10, 0, 0, 0, 0, 0, 0, -10, -10, 0, 5, 5, 5, 5, 0, -10,
       -5, 0, 5, 5, 5, 5, 0, -5, 0, 0, 5, 5, 5, 5, 0, -5, -10, 5, 5, 5, 5, 5, 0, -10, -10, 0, 5, 0, 0,
       0, 0, -10, -20, -10, -10, -5, -5, -10, -10, -20 >>

KING_PST ==
    << -30, -40, -40, -50, -50, -40, -40, -30, -30, -40, -40, -50, -50, -40, -40, -30, -30, -40, -40,
       -50, -50, -40, -40, -30, -30, -40, -40, -50, -50, -40, -40, -30, -20, -30, -30, -40, -40, -30,
       -30, -20, -10, -20, -20, -20, -20, -20, -20, -10, 20, 20, 0, 0, 0, 0, 20, 20, 20, 30, 10, 0, 0,
       10, 30, 20 >>

PIECE_PST == << PAWN_PST, KNIGHT_PST, BISHOP_PST, ROOK_PST, QUEEN_PST, KING_PST >>

\* pst_value: the table is read at square.0 for White and at square.0 ^ 56 for Black
pst_value(piece, square, color) ==
    LET index == IF color = White THEN square
                 ELSE SquareNew(FileOf(square), 7 - RankOf(square))
    IN  PIECE_PST[piece + 1][index + 1]

\* evaluate_pst; the kings are passed as wk.lsb().unwrap_or(E1), bk.lsb().unwrap_or(E8)
evaluate_pst(pos) ==
    LET side(color) ==
            SumSeq([i \in 1..5 |->
                LET sqs == BitboardIter(piece_bb(pos, i - 1, color))
                IN  SumSeq([j \in 1..Len(sqs) |-> pst_value(i - 1, sqs[j], color)])])
        wk == lsb(piece_bb(pos, King, White))
        bk == lsb(piece_bb(pos, King, Black))
    IN  side(White) + pst_value(King, IF wk = None THEN E1 ELSE wk[1], White)
        - side(Black) - pst_value(King, IF bk = None THEN E8 ELSE bk[1], Black)

\* Bitboard::file(f): the squares of file f
BitboardFile(f) == { sq \in Squares : FileOf(sq) = f }

\* [file.saturating_sub(1), file, (file + 1).min(7)], duplicates kept
AdjacentFiles(file) ==
    << IF file = 0 THEN 0 ELSE file - 1, file, IF file = 7 THEN 7 ELSE file + 1 >>

is_doubled_pawn(pawn_sq, friendly_pawns) ==
    Cardinality(friendly_pawns \cap BitboardFile(FileOf(pawn_sq))) > 1

is_isolated_pawn(pawn_sq, friendly_pawns) ==
    LET file == FileOf(pawn_sq)
        left_bb == IF file > 0 THEN BitboardFile(file - 1) ELSE {}
        right_bb == IF file < 7 THEN BitboardFile(file + 1) ELSE {}
    IN  friendly_pawns \cap (left_bb \cup right_bb) = {}

\* is_passed_pawn: no enemy pawn ahead on the pawn's file or the adjacent files
is_passed_pawn(pawn_sq, color, enemy_pawns) ==
    LET rank == RankOf(pawn_sq)
        ranks == IF color = White THEN (rank + 1)..7 ELSE 0..(rank - 1)
        files == SeqToSet(AdjacentFiles(FileOf(pawn_sq)))
    IN  \A r \in ranks : \A f \in files : SquareNew(f, r) \notin enemy_pawns

evaluate_single_color_pawns(friendly_pawns, enemy_pawns, color) ==
    LET ps == BitboardIter(friendly_pawns)
    IN  SumSeq([i \in 1..Len(ps) |->
            (IF is_doubled_pawn(ps[i], friendly_pawns) THEN -15 ELSE 0)
            + (IF is_isolated_pawn(ps[i], friendly_pawns) THEN -10 ELSE 0)
            + (IF is_passed_pawn(ps[i], color, enemy_pawns)
               THEN 10 + 5 * (IF color = White THEN RankOf(ps[i]) ELSE 7 - RankOf(ps[i]))
               ELSE 0)])

evaluate_pawn_structure(white_pawns, black_pawns) ==
    evaluate_single_color_pawns(white_pawns, black_pawns, White)
    - evaluate_single_color_pawns(black_pawns, white_pawns, Black)

\* evaluate_pawn_shield. A shield rank outside the board is skipped (`rank >= 8`,
\* which is also where king_rank - 1 and king_rank - 2 wrap to in u8 arithmetic;
\* the positions searched below keep the black king off its first two ranks, where
\* the subtraction would overflow).
evaluate_pawn_shield(king_sq, pawns, color) ==
    LET king_file == FileOf(king_sq)
        king_rank == RankOf(king_sq)
        shield_ranks == IF color = White THEN << king_rank + 1, king_rank + 2 >>
                        ELSE << king_rank - 1, king_rank - 2 >>
        shield_files == AdjacentFiles(king_file)
    IN  SumSeq([i \in 1..2 |->
            IF shield_ranks[i] \notin 0..7 THEN 0
            ELSE SumSeq([j \in 1..3 |->
                    IF SquareNew(shield_files[j], shield_ranks[i]) \in pawns
                    THEN 2 - Abs(shield_ranks[i] - king_rank)
                         + (1 - Abs(shield_files[j] - king_file))
                    ELSE 0])])

king_files_open(king_sq, enemy_pawns) ==
    \E f \in SeqToSet(AdjacentFiles(FileOf(king_sq))) : enemy_pawns \cap BitboardFile(f) = {}

king_files_semi_open(king_sq, friendly_pawns, enemy_pawns) ==
    \E f \in SeqToSet(AdjacentFiles(FileOf(king_sq))) :
        /\ enemy_pawns \cap BitboardFile(f) # {}
        /\ friendly_pawns \cap BitboardFile(f) = {}

evaluate_single_king_safety(king_sq, friendly_pawns, enemy_pawns, color) ==
    evaluate_pawn_shield(king_sq, friendly_pawns, color) * 3
    + (IF king_files_open(king_sq, enemy_pawns) THEN -20 ELSE 0)
    + (IF king_files_semi_open(king_sq, friendly_pawns, enemy_pawns) THEN -10 ELSE 0)

evaluate_king_safety(white_king, black_king, white_pawns, black_pawns) ==
    evaluate_single_king_safety(white_king, white_pawns, black_pawns, White)
    - evaluate_single_king_safety(black_king, black_pawns, white_pawns, Black)


\* Evaluator::evaluate_mobility: pseudo-legal move count of White minus that of Black
evaluate_mobility(pos) == Len(NodePseudoLegal(pos, White)) - Len(NodePseudoLegal(pos, Black))

\* f32::round of h / 100: to the nearest integer, halves away from zero
RoundHundredths(h) == IF h >= 0 THEN (h + 50) \div 100 ELSE -((50 - h) \div 100)

\* Evaluator::evaluate. The weighted sum material + 0.2 pst + 0.15 pawn_structure
\* + 0.15 king_safety + 0.1 mobility is formed exactly, in hundredths; the f32 sum
\* is within 0.01 of it, so the two round alike except at an exact half.
evaluate(pos) ==
    LET wk == lsb(piece_bb(pos, King, White))
        bk == lsb(piece_bb(pos, King, Black))
        wp == piece_bb(pos, Pawn, White)
        bp == piece_bb(pos, Pawn, Black)
        material == evaluate_material(pos)
        pst == evaluate_pst(pos)
        pawn_structure == evaluate_pawn_structure(wp, bp)
        king_safety == evaluate_king_safety(IF wk = None THEN E1 ELSE wk[1],
                                            IF bk = None THEN E8 ELSE bk[1], wp, bp)
        mobility == evaluate_mobility(pos)
        eval == 100 * material + 20 * pst + 15 * pawn_structure + 15 * king_safety
                + 10 * mobility
    IN  IF pos.side_to_move = White THEN RoundHundredths(eval) ELSE RoundHundredths(-eval)

----------------------------------------------------------------------------
(* search/quiescence.rs, search/transposition.rs, search/alphabeta.rs,
   search/negamax.rs *)

Max(a, b) == IF a >= b THEN a ELSE b
Min(a, b) == IF a <= b THEN a ELSE b

\* i32::MIN, i32::MIN / 2 and i32::MAX / 2
I32_MIN == -2147483647 - 1
ALPHA_INIT == -1073741824
BETA_INIT == 1073741823

\* `-x` on i32. Negating i32::MIN overflows: the build with overflow checks panics,
\* the build without them wraps to i32::MIN.
NegOverflows(x) == x = I32_MIN
WrappingNeg(x) == IF x = I32_MIN THEN I32_MIN ELSE -x

\* A move is kept by the capture filter of quiescence_search when its destination
\* holds an enemy piece or it is an en-passant move.
IsCapture(pos, color, mv) ==
    mv.to \in ColorPieces(pos, opposite(color)) \/ mv.move_type = "EnPassant"

RECURSIVE quiescence_search(_, _, _, _)
RECURSIVE QuiescenceLoop(_, _, _, _, _, _)

\* The `for mv in captures` loop of quiescence_search, from the i-th capture on
QuiescenceLoop(captures, i, alpha, beta, color, pos) ==
    IF i > Len(captures) THEN alpha
    ELSE LET child_position == make_move(pos, captures[i]).pos
             score == -quiescence_search(-beta, -alpha, opposite(color), child_position)
         IN  IF score >= beta THEN beta
             ELSE QuiescenceLoop(captures, i + 1, Max(alpha, score), beta, color, pos)

\* quiescence_search(alpha, beta, color, evaluator, position)
\* The stand-pat value of quiescence_search: evaluate, negated when color is Black
StandPat(color, pos) ==
    LET stand_pat == evaluate(pos)
    IN  IF color = White THEN stand_pat ELSE -stand_pat

quiescence_search(alpha, beta, color, pos) ==
    LET stand_pat == StandPat(color, pos)
        keep(mv) == IsCapture(pos, color, mv)
    IN  IF stand_pat >= beta THEN beta
        ELSE QuiescenceLoop(SelectSeq(NodePseudoLegal(pos, color), keep), 1,
                            Max(alpha, stand_pat), beta, color, pos)


\* zobrist_hash that also mixes the halfmove clock into the hash
zobrist_hash_clock(pos) ==
    << pos.pieces, pos.side_to_move, pos.castling_rights,
       IF pos.en_passant = None THEN None ELSE Some(FileOf(pos.en_passant[1])),
       pos.halfmove_clock >>

\* Position::zobrist_hash: the fields that enter the hash (piece placement, side to
\* move, castling rights, en-passant file). The keys are drawn at random when the
\* process starts; distinct values of these fields are taken to hash differently.
zobrist_hash(pos) ==
    << pos.pieces, pos.side_to_move, pos.castling_rights,
       IF pos.en_passant = None THEN None ELSE Some(FileOf(pos.en_passant[1])) >>

\* The outcomes of the key draw that are told apart: no two hashes of a search
\* share a slot, or all of them share one.
KeyDraws == { "distinct", "collide" }

\* TranspositionTable::hash_index: hash % size, under the key draw
hash_index(hash, keys) == IF keys = "collide" THEN << >> ELSE hash

\* TranspositionTable::new: every slot None. A table is a function from the slots
\* that hold Some(entry) to entries; with it travel three history flags of the search:
\* acted_foreign (a node used an entry stored for another hash), stored_partial (a
\* node stored after its move loop was left by a poll) and interrupted (some move
\* loop was left by a poll).
TranspositionTableNew ==
    [tt |-> << >>, acted_foreign |-> FALSE, stored_partial |-> FALSE, interrupted |-> FALSE]

\* TranspositionTable::probe
probe(tt, hash, keys) ==
    IF hash_index(hash, keys) \in DOMAIN tt THEN Some(tt[hash_index(hash, keys)]) ELSE None

\* TranspositionTable::store
store(tt, hash, keys, entry) ==
    [ i \in DOMAIN tt \cup { hash_index(hash, keys) } |->
        IF i = hash_index(hash, keys) THEN entry ELSE tt[i] ]

\* The polls of the stop flag and of the time limit: clock is the number of polls
\* that still read "go on" (Never: no poll ever reads "stop").
Never == -1
Stopped(clock) == clock = 0
Tick(clock) == IF clock > 0 THEN clock - 1 ELSE clock

SearchResult(best_move, score, nodes_searched, mem, clock, panicked) ==
    [best_move |-> best_move, score |-> score, nodes_searched |-> nodes_searched,
     mem |-> mem, clock |-> clock, panicked |-> panicked]

RECURSIVE alpha_beta_search(_, _, _, _, _, _, _, _)
RECURSIVE MoveLoop(_, _, _, _, _, _, _, _, _, _, _, _, _, _)

\* The end of alpha_beta_search, after its move loop: the result is the best score
\* and move so far, stored in the table whenever a move is present.
NodeEnd(depth, mem, pos, clock, env, best_score, best_move, node_type, nodes, interrupted) ==
    SearchResult(best_move, best_score, nodes,
        IF best_move = None THEN [mem EXCEPT !.interrupted = @ \/ interrupted]
        ELSE [mem EXCEPT
                !.tt = store(mem.tt, zobrist_hash(pos), env.keys,
                             [score |-> best_score, best_move |-> best_move[1],
                              depth |-> depth, node_type |-> node_type,
                              hash |-> zobrist_hash(pos)]),
                !.stored_partial = @ \/ interrupted,
                !.interrupted = @ \/ interrupted],
        clock, FALSE)

\* The `for &mv in legal_moves.iter()` loop of alpha_beta_search, from the i-th move
MoveLoop(moves, i, depth, alpha, beta, color, mem, pos, clock, env, best_score, best_move, node_type, nodes) ==
    IF i > Len(moves)
    THEN NodeEnd(depth, mem, pos, clock, env, best_score, best_move, node_type, nodes, FALSE)
    ELSE IF Stopped(clock)
    THEN NodeEnd(depth, mem, pos, clock, env, best_score, best_move, node_type, nodes, TRUE)
    ELSE
    LET child_position == make_move(pos, moves[i]).pos
        child_result == alpha_beta_search(depth - 1, -beta, -alpha, opposite(color), mem,
                                          child_position, Tick(clock), env)
    IN  IF child_result.panicked THEN child_result
        ELSE IF NegOverflows(child_result.score) /\ env.overflow_checks
        THEN SearchResult(None, 0, nodes, child_result.mem, child_result.clock, TRUE)
        ELSE
        LET score == WrappingNeg(child_result.score)
            nodes2 == nodes + child_result.nodes_searched
            best_score2 == IF score > best_score THEN score ELSE best_score
            best_move2 == IF score > best_score THEN Some(moves[i]) ELSE best_move
            alpha2 == Max(alpha, score)
        IN  IF alpha2 >= beta
            THEN NodeEnd(depth, child_result.mem, pos, child_result.clock, env,
                         best_score2, best_move2, "Lower", nodes2, FALSE)
            ELSE MoveLoop(moves, i + 1, depth, alpha2, beta, color, child_result.mem, pos,
                          child_result.clock, env, best_score2, best_move2, node_type, nodes2)

\* alpha_beta_search(depth, alpha, beta, color, tt, evaluator, position, stop_flag,
\* start_time, time_limit). env holds the key draw and the build's overflow checks.
alpha_beta_search(depth, alpha0, beta0, color, mem, pos, clock, env) ==
    LET found == probe(mem.tt, zobrist_hash(pos), env.keys)
        usable == found # None /\ found[1].depth >= depth
        tt_entry == found[1]
        alpha == IF usable /\ tt_entry.node_type = "Lower"
                 THEN Max(alpha0, tt_entry.score) ELSE alpha0
        beta == IF usable /\ tt_entry.node_type = "Upper"
                THEN Min(beta0, tt_entry.score) ELSE beta0
        mem2 == IF usable /\ tt_entry.hash # zobrist_hash(pos)
                THEN [mem EXCEPT !.acted_foreign = TRUE] ELSE mem
    IN  IF usable /\ (tt_entry.node_type = "Exact" \/ alpha >= beta)
        THEN SearchResult(Some(tt_entry.best_move), tt_entry.score, 1, mem2, clock, FALSE)
        ELSE IF depth = 0
        THEN SearchResult(None, quiescence_search(alpha, beta, color, pos), 1, mem2, clock,
                          FALSE)
        ELSE MoveLoop(NodeLegalMoves(pos, color), 1, depth, alpha, beta, color, mem2, pos,
                      clock, env, I32_MIN, None, "Upper", 1)

RECURSIVE negamax(_, _, _, _)
RECURSIVE NegamaxLoop(_, _, _, _, _, _, _)

\* The move loop of negamax, from the i-th legal move
NegamaxLoop(moves, i, depth, color, pos, env, max_score) ==
    IF i > Len(moves) THEN [score |-> max_score, panicked |-> FALSE]
    ELSE LET result == negamax(depth - 1, opposite(color), make_move(pos, moves[i]).pos, env)
         IN  IF result.panicked \/ (NegOverflows(result.score) /\ env.overflow_checks)
             THEN [score |-> 0, panicked |-> TRUE]
             ELSE NegamaxLoop(moves, i + 1, depth, color, pos, env,
                              Max(max_score, WrappingNeg(result.score)))

\* negamax(depth, color, evaluator, position); its legal moves are those of
\* movegen/legal.rs filter_legal_moves
negamax(depth, color, pos, env) ==
    IF depth = 0
    THEN [score |-> evaluate(pos) * (IF color = White THEN 1 ELSE -1), panicked |-> FALSE]
    ELSE NegamaxLoop(NodeLegalMoves(pos, color), 1, depth, color, pos, env, I32_MIN)

----------------------------------------------------------------------------
(* Positions the engine is given by `position fen ...` (Position::set_fen) *)

\* The position set_fen builds: placement is a set of <<piece, color, square>>
PositionOf(placement, side, rights, ep, halfmove, fullmove) ==
    [pieces |-> [p \in Pieces |-> [c \in Colors |->
                    { t[3] : t \in { u \in placement : u[1] = p /\ u[2] = c } }]],
     side_to_move |-> side, castling_rights |-> rights, en_passant |-> ep,
     halfmove_clock |-> halfmove, fullmove_number |-> fullmove]

\* rnbqkbnr/ppp1p1pp/8/3pPp2/8/8/PPPP1PPP/RNBQKBNR w KQkq f6 0 3
EnPassantFen ==
    [set_startpos EXCEPT
        !.pieces[Pawn][White] = (@ \ {12}) \cup {36},
        !.pieces[Pawn][Black] = (@ \ {51, 53}) \cup {35, 37},
        !.en_passant = Some(45),
        !.fullmove_number = 3]

\* 4k3/8/8/8/8/8/8/R3K2R w KQ - 0 1 with the given extra black pieces
CastleFen(extra, rights) ==
    PositionOf({ <<King, White, E1>>, <<Rook, White, A1>>, <<Rook, White, H1>>,
                 <<King, Black, E8>> } \cup extra, White, rights, None, 0, 1)

\* r3k2r/8/8/8/8/8/8/4K3 b kq - 0 1 with the given extra white pieces
BlackCastleFen(extra, rights) ==
    PositionOf({ <<King, Black, E8>>, <<Rook, Black, A8>>, <<Rook, Black, H8>>,
                 <<King, White, E1>> } \cup extra, Black, rights, None, 0, 1)

\* 1r2k3/P7/8/8/8/8/8/4K3 w - - 0 1
PromotionFen ==
    PositionOf({ <<King, White, E1>>, <<Pawn, White, 48>>, <<Rook, Black, B8>>,
                 <<King, Black, E8>> }, White, CastleNone, None, 0, 1)

\* 4k3/8/8/8/8/8/p7/1R2K3 b - - 4 5
BlackPromotionFen ==
    PositionOf({ <<King, White, E1>>, <<Rook, White, B1>>, <<Pawn, Black, 8>>,
                 <<King, Black, E8>> }, Black, CastleNone, None, 4, 5)

\* 4k3/8/8/8/3pP3/8/8/4K3 b - e3 0 1
BlackEnPassantFen ==
    PositionOf({ <<King, White, E1>>, <<Pawn, White, 28>>, <<Pawn, Black, 27>>,
                 <<King, Black, E8>> }, Black, CastleNone, Some(20), 0, 1)

\* 7k/5Q2/6K1/8/8/8/8/8 b - - 0 1: black has no legal move and is not in check
StalemateFen ==
    PositionOf({ <<King, Black, H8>>, <<Queen, White, 53>>, <<King, White, 46>> },
               Black, CastleNone, None, 0, 1)

\* The squares an extra black rook is put on in the castling positions: the
\* eighth rank except e8
RookSquares == (56..63) \ {E8}
\* ... and an extra white rook in the black castling positions
WhiteRookSquares == (0..7) \ {E1}

RightsSets(k, q) == { {}, {k}, {q}, {k, q} }

TestPositions ==
    { set_startpos, EnPassantFen, PromotionFen, BlackPromotionFen, BlackEnPassantFen,
      StalemateFen }
    \cup { CastleFen({}, r) : r \in RightsSets(WHITE_KING, WHITE_QUEEN) }
    \cup { CastleFen({ <<Rook, Black, sq>> }, r) :
             sq \in RookSquares, r \in RightsSets(WHITE_KING, WHITE_QUEEN) }
    \cup { BlackCastleFen({ <<Rook, White, sq>> }, r) :
             sq \in WhiteRookSquares, r \in RightsSets(BLACK_KING, BLACK_QUEEN) }

\* 6k1/5ppp/8/8/8/8/5PPP/R5K1 w - - 0 1: a1a8 mates
BackRankFen ==
    PositionOf({ <<King, White, G1>>, <<Rook, White, A1>>, <<Pawn, White, 13>>,
                 <<Pawn, White, 14>>, <<Pawn, White, 15>>, <<King, Black, G8>>,
                 <<Pawn, Black, 53>>, <<Pawn, Black, 54>>, <<Pawn, Black, 55>> },
               White, CastleNone, None, 0, 1)

\* 7k/6Q1/6K1/8/8/8/8/8 b - - 0 1: black is checkmated
MatedFen ==
    PositionOf({ <<King, Black, H8>>, <<Queen, White, 54>>, <<King, White, 46>> },
               Black, CastleNone, None, 0, 1)

\* 4k3/8/8/8/8/8/8/Rr2K3 w - - 0 1: white is in check; a1b1, the first legal move,
\* wins the rook
RookCheckFen ==
    PositionOf({ <<King, White, E1>>, <<Rook, White, A1>>, <<Rook, Black, B1>>,
                 <<King, Black, E8>> }, White, CastleNone, None, 0, 1)

\* Every legal move of a position: the node's list plus the castling moves that
\* generate_castling_moves offers and is_legal_castling accepts
AllLegalMoves(pos) ==
    LET color == pos.side_to_move
        king == lsb(piece_bb(pos, King, color))
    IN  filter_legal_moves(
            NodePseudoLegal(pos, color)
            \o (IF king = None THEN <<>>
                ELSE generate_castling_moves(king[1], pos.castling_rights,
                                             Occupied(pos), color)),
            pos, color)


----------------------------------------------------------------------------
(* State *)

VARIABLES
    \* --- the position machinery exercised on its own (PosSpec) ---
    board,          \* the Position a search node works on
    undo_stack,     \* the Undo records of the moves made and not yet unmade
    expect,         \* Some(position before the move that was just unmade), or None
    legal_moves,    \* Some(list alpha_beta_search enumerates at `board`), or None
    \* --- UciEngine and its worker threads (Spec) ---
    pc,             \* where the controller thread is in run / handle_command
    command,        \* the verb of the line being handled
    n_cmds,         \* lines read so far
    position,       \* UciEngine.position
    stop_flag,      \* UciEngine.stop_flag (shared AtomicBool)
    search_handle,  \* UciEngine.search_handle: Some(id of the thread) or None
    joining,        \* the thread a handle.join() waits for
    join_next,      \* where the controller continues after the join
    n_go,           \* searches started so far; the ids of the spawned threads
    worker,         \* per thread: "unborn", "searching", "returning", "done"
    worker_pos,     \* per thread: the position clone moved into its closure
    worker_tt,      \* per thread: entries stored in its own TranspositionTable
    channel,        \* the mpsc channel: results sent and not yet received
    output,         \* the bestmove lines printed, in order
    root_at_go,     \* history: UciEngine.position when the thread's `go` was handled
    stop_requested, \* history: threads that were searching when `stop` set the flag
    \* --- one call of iterative_deepening, alpha_beta_search, negamax (SearchSpec) ---
    phase,          \* where the call is
    root_position,  \* the position searched
    env,            \* the key draw of the process and the overflow checks of the build
    max_depth,      \* time_control.depth, or the depth of a fixed-depth call
    clock,          \* polls of the flag and the time limit that still read "go on"
    depth,          \* the loop variable of iterative_deepening
    search_result,  \* `result` of iterative_deepening
    tt,             \* the TranspositionTable of the search, with its history flags
    completed,      \* history: Some(best move of the deepest iteration not interrupted)
    fixed_ab,       \* Some(result of the fixed-depth alpha_beta_search), or None
    fixed_nm,       \* Some(result of the fixed-depth negamax), or None
    \* --- one `position` line and the bestmove line that answers it (CommandSpec) ---
    cmd_state,      \* "read" before the line is handled, then "handled" or "panicked"
    cmd_input,      \* the line: the position its FEN denotes and its move tokens
    cmd_position,   \* UciEngine.position
    printed,        \* Some([mv, text]): the move of a result and the text printed
                    \* for it after `bestmove `; None before
    \* --- to_fen, set_fen and zobrist_hash on one position (FenSpec) ---
    fen_state,      \* "start", then "emitted" and "parsed", or "hashed" and "rehashed"
    fen_position,   \* the Position the functions are called on
    fen_other,      \* a Position with the same layers, side, rights and en-passant square
    fen_text,       \* Some(the String to_fen returned), or None
    fen_parsed,     \* Some(the outcome of set_fen on that String), or None
    fen_hashes,     \* the values zobrist_hash returned, in call order
    fen_keys,       \* the Lazy Zobrist tables: None until first used, then Some(draw)
    \* --- one TranspositionTable and the calls made on it (TableSpec) ---
    tbl_table,      \* TranspositionTable.table: per slot None or Some(entry)
    tbl_log,        \* history: the store, probe and clear calls made and what each returned
    \* --- init_magics and the magic lookups (MagicSpec) ---
    mg_state,       \* "start" before init_magics, "ready" after it
    mg_magics,      \* BISHOP_MAGICS / ROOK_MAGICS: per slider, square -> MagicEntry
    mg_attacks,     \* BISHOP_ATTACKS / ROOK_ATTACKS: per slider, index -> attack set written
    mg_lookups      \* history: the lookups made, with the index used and the set returned

posVars == << board, undo_stack, expect, legal_moves >>
drvVars == << pc, command, n_cmds, position, stop_flag, search_handle, joining,
              join_next, n_go, worker, worker_pos, worker_tt, channel, output,
              root_at_go, stop_requested >>
srchVars == << phase, root_position, env, max_depth, clock, depth, search_result, tt,
               completed, fixed_ab, fixed_nm >>
cmdVars == << cmd_state, cmd_input, cmd_position, printed >>
fenVars == << fen_state, fen_position, fen_other, fen_text, fen_parsed, fen_hashes, fen_keys >>
tblVars == << tbl_table, tbl_log >>
mgVars == << mg_state, mg_magics, mg_attacks, mg_lookups >>
libVars == << fenVars, tblVars, mgVars >>
vars == << posVars, drvVars, srchVars, cmdVars, libVars >>

\* Bounds of the model
MaxPly == 1
MaxCmds == 4
MaxGo == 2
MaxNodes == 1

----------------------------------------------------------------------------
(* The position machinery: a node generates its move list, makes a move on the
   position, unmakes it (alphabeta.rs 278-327, legal.rs 128-141) *)

PosInit ==
    /\ board \in TestPositions
    /\ undo_stack = <<>>
    /\ expect = None
    /\ legal_moves = None

\* alpha_beta_search lines 227-289: build the node's legal-move list
Generate ==
    /\ legal_moves = None
    /\ legal_moves' = Some(NodeLegalMoves(board, board.side_to_move))
    /\ UNCHANGED << board, undo_stack, expect >>
    /\ UNCHANGED << drvVars, srchVars, cmdVars, libVars >>

\* Position::make_move of a legal move
MakeMove ==
    /\ Len(undo_stack) < MaxPly
    /\ \E mv \in SeqToSet(AllLegalMoves(board)) :
          LET r == make_move(board, mv)
          IN  /\ board' = r.pos
              /\ undo_stack' = << [undo |-> r.undo, before |-> board] >> \o undo_stack
    /\ expect' = None
    /\ legal_moves' = None
    /\ UNCHANGED << drvVars, srchVars, cmdVars, libVars >>

\* Position::unmake_move of the move made last
UnmakeMove ==
    /\ undo_stack # <<>>
    /\ board' = unmake_move(board, Head(undo_stack).undo).pos
    /\ expect' = Some(Head(undo_stack).before)
    /\ undo_stack' = Tail(undo_stack)
    /\ legal_moves' = None
    /\ UNCHANGED << drvVars, srchVars, cmdVars, libVars >>

----------------------------------------------------------------------------
(* uci/protocol.rs: UciEngine *)

SearchIds == 1..MaxGo

\* The controller is idle while PosSpec runs, and the position machinery is idle
\* while Spec runs.
DrvInit ==
    /\ pc = "read"
    /\ command = "none"
    /\ n_cmds = 0
    /\ position = set_startpos
    /\ stop_flag = FALSE
    /\ search_handle = None
    /\ joining = None
    /\ join_next = "none"
    /\ n_go = 0
    /\ worker = [id \in SearchIds |-> "unborn"]
    /\ worker_pos = [id \in SearchIds |-> None]
    /\ worker_tt = [id \in SearchIds |-> 0]
    /\ channel = <<>>
    /\ output = <<>>
    /\ root_at_go = [id \in SearchIds |-> None]
    /\ stop_requested = {}

PosIdle ==
    /\ board = PositionEmpty
    /\ undo_stack = <<>>
    /\ expect = None
    /\ legal_moves = None


\* `for mv in moves { self.position.make_move(mv); }`
RECURSIVE ApplyMoves(_, _)
ApplyMoves(pos, moves) ==
    IF moves = <<>> THEN [pos |-> pos, panicked |-> FALSE]
    ELSE LET r == make_move(pos, Head(moves))
         IN  IF r.panicked THEN [pos |-> pos, panicked |-> TRUE]
             ELSE ApplyMoves(r.pos, Tail(moves))

\* handle_position: fen is Some(the position set_fen builds) or None when set_fen
\* returns Err; moves are the tokens parse_uci_move accepted
handle_position(fen, moves) ==
    IF fen = None
    THEN [pos |-> set_startpos, panicked |-> FALSE]
    ELSE ApplyMoves(fen[1], moves)

\* The `position` lines the controller is sent
PositionInputs ==
    { [fen |-> Some(set_startpos), moves |-> <<>>],
      [fen |-> Some(set_startpos), moves |-> << MoveNew(12, 28) >>],
      [fen |-> Some(StalemateFen), moves |-> <<>>],
      [fen |-> None, moves |-> <<>>] }

\* The positions UciEngine.position can hold under PositionInputs
DriverPositions ==
    { set_startpos } \cup { handle_position(inp.fen, inp.moves).pos : inp \in PositionInputs }

\* The first legal move of each of them, computed once
FirstLegalMoves ==
    [ pos \in DriverPositions |-> generate_fallback_move(pos, pos.side_to_move) ]

\* generate_emergency_move: the first legal move of UciEngine.position
generate_emergency_move(pos) ==
    IF pos \in DriverPositions THEN FirstLegalMoves[pos]
    ELSE generate_fallback_move(pos, pos.side_to_move)

\* The position a worker thread searches: the clone moved into its closure
\* (`let position = self.position.clone()`, passed as `&position`)
WorkerRootShared(id) == Some(position)
WorkerRoot(id) == worker_pos[id]

\* The SearchResult iterative_deepening returns for a root position, as far as
\* the driver reads it: best_move is None exactly when the root has no legal move
\* (result.best_move falls back to generate_fallback_move). Which legal move the
\* search prefers is not modelled here.
iterative_deepening(root) ==
    IF root \in DriverPositions THEN FirstLegalMoves[root]
    ELSE generate_fallback_move(root, root.side_to_move)

\* The reply to a received result: `bestmove <mv>` for the result's move, else
\* for the emergency move; `bestmove 0000` only where the handler has that branch.
\* A line is [move, search]; move = None stands for 0000.
ReplyTo(result, last_resort) ==
    IF result.best_move # None
    THEN << [move |-> result.best_move, search |-> result.search] >>
    ELSE LET fallback_mv == generate_emergency_move(position)
         IN  IF fallback_mv # None
             THEN << [move |-> fallback_mv, search |-> result.search] >>
             ELSE IF last_resort
                  THEN << [move |-> None, search |-> result.search] >>
                  ELSE <<>>

\* `if let Ok(result) = self.result_receiver.try_recv() { ... }`
TryRecvAndReply(last_resort) ==
    IF channel = <<>>
    THEN UNCHANGED << channel, output >>
    ELSE /\ channel' = Tail(channel)
         /\ output' = output \o ReplyTo(Head(channel), last_resort)

Running == pc \notin {"done", "crashed"}

\* A line is read (run, line 65); lines are bounded by MaxCmds
CanRead == pc = "read" /\ n_cmds < MaxCmds

\* `isready` (and `uci`): a reply line only
IsReady ==
    /\ CanRead
    /\ command' = "isready"
    /\ n_cmds' = n_cmds + 1
    /\ pc' = "drain"
    /\ UNCHANGED << position, stop_flag, search_handle, joining, join_next, n_go,
                    worker, worker_pos, worker_tt, channel, output, root_at_go,
                    stop_requested >>
    /\ UNCHANGED << posVars, srchVars, cmdVars, libVars >>

\* `ucinewgame`: set_startpos
NewGame ==
    /\ CanRead
    /\ command' = "ucinewgame"
    /\ n_cmds' = n_cmds + 1
    /\ position' = set_startpos
    /\ pc' = "drain"
    /\ UNCHANGED << stop_flag, search_handle, joining, join_next, n_go,
                    worker, worker_pos, worker_tt, channel, output, root_at_go,
                    stop_requested >>
    /\ UNCHANGED << posVars, srchVars, cmdVars, libVars >>

\* `position ...`: handle_position; a panic in make_move ends the process
PositionCmd ==
    /\ CanRead
    /\ \E inp \in PositionInputs :
          LET r == handle_position(inp.fen, inp.moves)
          IN  /\ position' = r.pos
              /\ pc' = IF r.panicked THEN "crashed" ELSE "drain"
    /\ command' = "position"
    /\ n_cmds' = n_cmds + 1
    /\ UNCHANGED << stop_flag, search_handle, joining, join_next, n_go,
                    worker, worker_pos, worker_tt, channel, output, root_at_go,
                    stop_requested >>
    /\ UNCHANGED << posVars, srchVars, cmdVars, libVars >>

\* `go`: start_search. Stores false into the flag, clones the position, creates
\* a fresh table and spawns a thread; the previous JoinHandle is overwritten.
Go ==
    /\ CanRead
    /\ n_go < MaxGo
    /\ command' = "go"
    /\ n_cmds' = n_cmds + 1
    /\ stop_flag' = FALSE
    /\ n_go' = n_go + 1
    /\ worker' = [worker EXCEPT ![n_go + 1] = "searching"]
    /\ worker_pos' = [worker_pos EXCEPT ![n_go + 1] = Some(position)]
    /\ worker_tt' = [worker_tt EXCEPT ![n_go + 1] = 0]
    /\ root_at_go' = [root_at_go EXCEPT ![n_go + 1] = Some(position)]
    /\ search_handle' = Some(n_go + 1)
    /\ pc' = "drain"
    /\ UNCHANGED << position, joining, join_next, channel, output, stop_requested >>
    /\ UNCHANGED << posVars, srchVars, cmdVars, libVars >>

\* `stop`, first half: store true into the flag, then sleep 10 ms
Stop ==
    /\ CanRead
    /\ command' = "stop"
    /\ n_cmds' = n_cmds + 1
    /\ stop_flag' = TRUE
    /\ stop_requested' = stop_requested \cup { id \in SearchIds : worker[id] = "searching" }
    /\ pc' = "stop_sleep"
    /\ UNCHANGED << position, search_handle, joining, join_next, n_go,
                    worker, worker_pos, worker_tt, channel, output, root_at_go >>
    /\ UNCHANGED << posVars, srchVars, cmdVars, libVars >>

\* `stop`, second half: after the sleep, try_recv and reply (no 0000 branch)
StopRecv ==
    /\ pc = "stop_sleep"
    /\ TryRecvAndReply(FALSE)
    /\ pc' = "drain"
    /\ UNCHANGED << command, n_cmds, position, stop_flag, search_handle, joining,
                    join_next, n_go, worker, worker_pos, worker_tt, root_at_go,
                    stop_requested >>
    /\ UNCHANGED << posVars, srchVars, cmdVars, libVars >>

\* `quit` in handle_command: take the handle and join it, without touching the flag
Quit ==
    /\ CanRead
    /\ command' = "quit"
    /\ n_cmds' = n_cmds + 1
    /\ IF search_handle # None
       THEN /\ joining' = search_handle
            /\ search_handle' = None
            /\ join_next' = "quit_recv"
            /\ pc' = "join"
       ELSE /\ pc' = "quit_recv"
            /\ UNCHANGED << search_handle, joining, join_next >>
    /\ UNCHANGED << position, stop_flag, n_go, worker, worker_pos, worker_tt,
                    channel, output, root_at_go, stop_requested >>
    /\ UNCHANGED << posVars, srchVars, cmdVars, libVars >>

\* handle.join() returns once the thread has ended
Join ==
    /\ pc = "join"
    /\ worker[joining[1]] = "done"
    /\ pc' = join_next
    /\ joining' = None
    /\ join_next' = "none"
    /\ UNCHANGED << command, n_cmds, position, stop_flag, search_handle, n_go,
                    worker, worker_pos, worker_tt, channel, output, root_at_go,
                    stop_requested >>
    /\ UNCHANGED << posVars, srchVars, cmdVars, libVars >>

\* `quit` in handle_command, after the join: try_recv and reply (no 0000 branch)
QuitRecv ==
    /\ pc = "quit_recv"
    /\ TryRecvAndReply(FALSE)
    /\ pc' = "drain"
    /\ UNCHANGED << command, n_cmds, position, stop_flag, search_handle, joining,
                    join_next, n_go, worker, worker_pos, worker_tt, root_at_go,
                    stop_requested >>
    /\ UNCHANGED << posVars, srchVars, cmdVars, libVars >>

\* run, lines 81-101: try_recv and reply after the command; then, for `quit`,
\* cancel and join a thread whose handle is still held, and leave the loop
Drain ==
    /\ pc = "drain"
    /\ TryRecvAndReply(TRUE)
    /\ IF command = "quit"
       THEN IF search_handle # None
            THEN /\ stop_flag' = TRUE
                 /\ joining' = search_handle
                 /\ search_handle' = None
                 /\ join_next' = "done"
                 /\ pc' = "join"
            ELSE /\ pc' = "done"
                 /\ UNCHANGED << stop_flag, search_handle, joining, join_next >>
       ELSE /\ pc' = "read"
            /\ UNCHANGED << stop_flag, search_handle, joining, join_next >>
    /\ UNCHANGED << command, n_cmds, position, n_go, worker, worker_pos, worker_tt,
                    root_at_go, stop_requested >>
    /\ UNCHANGED << posVars, srchVars, cmdVars, libVars >>

----------------------------------------------------------------------------
(* The worker thread spawned by start_search: iterative_deepening and
   alpha_beta_search as far as they touch the flag and the channel *)

\* The move loop polls the flag, sees false, and searches one more child
\* (alphabeta.rs 295-322), storing into the thread's own table
WorkerSearch(id) ==
    /\ Running
    /\ worker[id] = "searching"
    /\ stop_flag = FALSE
    /\ worker_tt[id] < MaxNodes
    /\ worker_tt' = [worker_tt EXCEPT ![id] = @ + 1]
    /\ UNCHANGED << pc, command, n_cmds, position, stop_flag, search_handle, joining,
                    join_next, n_go, worker, worker_pos, channel, output, root_at_go,
                    stop_requested >>
    /\ UNCHANGED << posVars, srchVars, cmdVars, libVars >>

\* The flag is seen set (alphabeta.rs 296, 383): the loops are left
WorkerObserveStop(id) ==
    /\ Running
    /\ worker[id] = "searching"
    /\ stop_flag = TRUE
    /\ worker' = [worker EXCEPT ![id] = "returning"]
    /\ UNCHANGED << pc, command, n_cmds, position, stop_flag, search_handle, joining,
                    join_next, n_go, worker_pos, worker_tt, channel, output, root_at_go,
                    stop_requested >>
    /\ UNCHANGED << posVars, srchVars, cmdVars, libVars >>

\* The depth ceiling or the time limit ends the search (alphabeta.rs 382-428)
WorkerFinish(id) ==
    /\ Running
    /\ worker[id] = "searching"
    /\ worker' = [worker EXCEPT ![id] = "returning"]
    /\ UNCHANGED << pc, command, n_cmds, position, stop_flag, search_handle, joining,
                    join_next, n_go, worker_pos, worker_tt, channel, output, root_at_go,
                    stop_requested >>
    /\ UNCHANGED << posVars, srchVars, cmdVars, libVars >>

\* `let _ = sender.send(result)`, then the thread ends
WorkerSend(id) ==
    /\ Running
    /\ worker[id] = "returning"
    /\ channel' = Append(channel, [best_move |-> iterative_deepening(WorkerRoot(id)[1]),
                                   search |-> id])
    /\ worker' = [worker EXCEPT ![id] = "done"]
    /\ UNCHANGED << pc, command, n_cmds, position, stop_flag, search_handle, joining,
                    join_next, n_go, worker_pos, worker_tt, output, root_at_go,
                    stop_requested >>
    /\ UNCHANGED << posVars, srchVars, cmdVars, libVars >>

----------------------------------------------------------------------------
(* One call of iterative_deepening, or of alpha_beta_search and negamax at a
   fixed depth, on a searched position *)

MaxDepth == 2
MaxPolls == 6

Clocks == { Never } \cup (0..MaxPolls)
Builds == [keys : KeyDraws, overflow_checks : BOOLEAN]

\* 1k5r/8/8/8/8/8/7R/R5K1 w - - 0 1: the first move of the root's list, Ra1-b1+,
\* checks the black king while the black rook attacks the rook on h2
CheckedCaptureFen ==
    PositionOf({ <<King, White, G1>>, <<Rook, White, A1>>, <<Rook, White, 15>>,
                 <<King, Black, B8>>, <<Rook, Black, H8>> },
               White, CastleNone, None, 0, 1)

SmallPositions == { RookCheckFen, StalemateFen, MatedFen }

\* The calls made: every small position at every depth ceiling, clock and build;
\* the back-rank position at the deepest ceiling with no poll ever reading "stop"
SearchInputs ==
    [root : SmallPositions, max_depth : 0..MaxDepth, clock : Clocks, env : Builds]
    \cup [root : { BackRankFen }, max_depth : { MaxDepth }, clock : { Never }, env : Builds]
    \cup [root : { CheckedCaptureFen }, max_depth : { 1 }, clock : { Never }, env : Builds]

\* SearchResult { best_move: None, score: 0, nodes_searched: 0 }
ResultInit == [best_move |-> None, score |-> 0, nodes_searched |-> 0]

SrchIdle ==
    /\ phase = "idle"
    /\ root_position = PositionEmpty
    /\ env = [keys |-> "distinct", overflow_checks |-> FALSE]
    /\ max_depth = 0
    /\ clock = Never
    /\ depth = 1
    /\ search_result = ResultInit
    /\ tt = TranspositionTableNew
    /\ completed = None
    /\ fixed_ab = None
    /\ fixed_nm = None

SrchInit ==
    /\ phase = "start"
    /\ \E inp \in SearchInputs :
        /\ root_position = inp.root
        /\ env = inp.env
        /\ max_depth = inp.max_depth
        /\ clock = inp.clock
    /\ depth = 1
    /\ search_result = ResultInit
    /\ tt = TranspositionTableNew
    /\ completed = None
    /\ fixed_ab = None
    /\ fixed_nm = None

\* iterative_deepening up to its loop (alphabeta.rs 370-379)
IterativeDeepeningEnter ==
    /\ phase = "start"
    /\ phase' = "loop"
    /\ UNCHANGED << root_position, env, max_depth, clock, depth, search_result, tt, completed,
                    fixed_ab, fixed_nm >>
    /\ UNCHANGED << posVars, drvVars, cmdVars, libVars >>

\* One pass of `for depth in 1..=max_depth`: the flag reads "go on", the time
\* estimate lets the depth start, alpha_beta_search runs with the full window and
\* its search_result replaces `result`; then the time checks after the depth may break.
Iterate ==
    /\ phase = "loop"
    /\ depth <= max_depth
    /\ ~Stopped(clock)
    /\ \E r \in { alpha_beta_search(depth, ALPHA_INIT, BETA_INIT, root_position.side_to_move, tt,
                                    root_position, Tick(clock), env) } :
        IF r.panicked
        THEN /\ phase' = "panicked"
             /\ UNCHANGED << search_result, tt, clock, completed, depth >>
        ELSE /\ search_result' = [best_move |-> r.best_move, score |-> r.score,
                           nodes_searched |-> r.nodes_searched]
             /\ tt' = r.mem
             /\ clock' = r.clock
             /\ completed' = IF r.mem.interrupted THEN completed ELSE Some(r.best_move)
             /\ depth' = depth + 1
             /\ \E time_up \in BOOLEAN : phase' = IF time_up THEN "break" ELSE "loop"
    /\ UNCHANGED << root_position, env, max_depth, fixed_ab, fixed_nm >>
    /\ UNCHANGED << posVars, drvVars, cmdVars, libVars >>

\* The loop is over (ceiling reached, flag read as set, or a time break): a missing
\* best move is replaced by the fallback move, and the search_result is returned.
Return ==
    /\ \/ phase = "break"
       \/ phase = "loop" /\ (depth > max_depth \/ Stopped(clock))
    /\ phase' = "returned"
    /\ search_result' = IF search_result.best_move = None
                 THEN [search_result EXCEPT !.best_move =
                                        generate_fallback_move(root_position, root_position.side_to_move)]
                 ELSE search_result
    /\ UNCHANGED << root_position, env, max_depth, clock, depth, tt, completed, fixed_ab, fixed_nm >>
    /\ UNCHANGED << posVars, drvVars, cmdVars, libVars >>

\* alpha_beta_search(max_depth, i32::MIN / 2, i32::MAX / 2, ...) on an empty table,
\* the flag never set and no time limit
FixedAlphaBeta ==
    /\ phase = "start"
    /\ clock = Never
    /\ phase' = "fixed_ab"
    /\ fixed_ab' = Some(alpha_beta_search(max_depth, ALPHA_INIT, BETA_INIT,
                                          root_position.side_to_move, TranspositionTableNew, root_position,
                                          Never, env))
    /\ UNCHANGED << root_position, env, max_depth, clock, depth, search_result, tt, completed, fixed_nm >>
    /\ UNCHANGED << posVars, drvVars, cmdVars, libVars >>

\* negamax(max_depth, ...) on the same position
FixedNegamax ==
    /\ phase = "fixed_ab"
    /\ phase' = "fixed"
    /\ fixed_nm' = Some(negamax(max_depth, root_position.side_to_move, root_position, env))
    /\ UNCHANGED << root_position, env, max_depth, clock, depth, search_result, tt, completed, fixed_ab >>
    /\ UNCHANGED << posVars, drvVars, cmdVars, libVars >>

----------------------------------------------------------------------------
(* uci/commands.rs parse_position_command and parse_uci_move, uci/protocol.rs
   handle_position, movegen/generator.rs Display for Move: one `position` line
   and the `bestmove` line printed for a move of the resulting position.
   A text is a sequence of one-character strings. *)

FILE_CHARS == << "a", "b", "c", "d", "e", "f", "g", "h" >>
RANK_CHARS == << "1", "2", "3", "4", "5", "6", "7", "8" >>

\* impl Debug for Square: (b'a' + file) as char, (b'1' + rank) as char
SquareDebug(sq) == << FILE_CHARS[FileOf(sq) + 1], RANK_CHARS[RankOf(sq) + 1] >>

\* #[derive(Debug)] on Piece: the variant's name
PieceDebug(piece) ==
    CASE piece = Pawn -> << "P", "a", "w", "n" >>
      [] piece = Knight -> << "K", "n", "i", "g", "h", "t" >>
      [] piece = Bishop -> << "B", "i", "s", "h", "o", "p" >>
      [] piece = Rook -> << "R", "o", "o", "k" >>
      [] piece = Queen -> << "Q", "u", "e", "e", "n" >>
      [] piece = King -> << "K", "i", "n", "g" >>

\* impl Display for Move, which forwards to impl Debug for Move
MoveDisplay(mv) ==
    CASE mv.move_type = "Normal" -> SquareDebug(mv.from) \o SquareDebug(mv.to)
      [] mv.move_type = "Promotion" ->
            SquareDebug(mv.from) \o SquareDebug(mv.to) \o << "=" >> \o PieceDebug(mv.promo)
      [] mv.move_type = "EnPassant" ->
            SquareDebug(mv.from) \o SquareDebug(mv.to) \o << " ", "e", ".", "p", "." >>
      [] mv.move_type = "Castling" ->
            SquareDebug(mv.from) \o SquareDebug(mv.to)
            \o << " ", "c", "a", "s", "t", "l", "i", "n", "g" >>

\* (byte as u32).checked_sub(first)? followed by the `> 7` test: the offset of the
\* character in a..h or 1..8, or None
CharOffset(chars, c) ==
    IF \E i \in 1..8 : chars[i] = c
    THEN Some((CHOOSE i \in 1..8 : chars[i] = c) - 1)
    ELSE None

\* promo_char.to_ascii_lowercase() matched against 'q', 'r', 'b', 'n'
PromoPiece(c) ==
    CASE c \in { "q", "Q" } -> Some(Queen)
      [] c \in { "r", "R" } -> Some(Rook)
      [] c \in { "b", "B" } -> Some(Bishop)
      [] c \in { "n", "N" } -> Some(Knight)
      [] OTHER -> None

\* parse_uci_move: Some(Move::new or Move::promotion) or None
parse_uci_move(mv_str) ==
    IF Len(mv_str) < 4 THEN None
    ELSE
    LET from_file == CharOffset(FILE_CHARS, mv_str[1])
        from_rank == CharOffset(RANK_CHARS, mv_str[2])
        to_file == CharOffset(FILE_CHARS, mv_str[3])
        to_rank == CharOffset(RANK_CHARS, mv_str[4])
    IN  IF None \in { from_file, from_rank, to_file, to_rank } THEN None
        ELSE
        LET from == SquareNew(from_file[1], from_rank[1])
            to == SquareNew(to_file[1], to_rank[1])
        IN  IF Len(mv_str) = 5
            THEN IF PromoPiece(mv_str[5]) = None THEN None
                 ELSE Some(MovePromotion(from, to, PromoPiece(mv_str[5])[1]))
            ELSE Some(MoveNew(from, to))

\* parse_position_command: the moves of the tokens parse_uci_move accepts, in order
RECURSIVE ParsedMoves(_)
ParsedMoves(tokens) ==
    IF tokens = << >> THEN << >>
    ELSE (IF parse_uci_move(Head(tokens)) = None THEN << >>
          ELSE << parse_uci_move(Head(tokens))[1] >>)
         \o ParsedMoves(Tail(tokens))

MaxTokens == 2

\* The move tokens sent: e2e4, e3e4, e2e5, e5f6, e1g1, e1c1, e8g8, e8c8, a7a8q, d1e8,
\* and the malformed e2 and i2e4
MoveTokens ==
    { << "e", "2", "e", "4" >>, << "e", "3", "e", "4" >>, << "e", "2", "e", "5" >>,
      << "e", "5", "f", "6" >>, << "e", "1", "g", "1" >>, << "e", "1", "c", "1" >>,
      << "e", "8", "g", "8" >>, << "e", "8", "c", "8" >>,
      << "a", "7", "a", "8", "q" >>, << "d", "1", "e", "8" >>,
      << "e", "2" >>, << "i", "2", "e", "4" >> }

TokenLists == UNION { [1..n -> MoveTokens] : n \in 0..MaxTokens }

\* The positions named by the FEN of the line: the start position, the en-passant
\* position, the castling positions of both sides with all rights, the promotion
\* position
CommandPositions ==
    { set_startpos, EnPassantFen, PromotionFen,
      CastleFen({}, { WHITE_KING, WHITE_QUEEN }),
      BlackCastleFen({}, { BLACK_KING, BLACK_QUEEN }) }

CmdIdle ==
    /\ cmd_state = "idle"
    /\ cmd_input = [fen |-> set_startpos, tokens |-> << >>]
    /\ cmd_position = set_startpos
    /\ printed = None

\* UciEngine::new, and a `position fen <fen> moves <tokens>` line on stdin
CmdInit ==
    /\ cmd_state = "read"
    /\ cmd_input \in [fen : CommandPositions, tokens : TokenLists]
    /\ cmd_position = set_startpos
    /\ printed = None

\* handle_command for the `position` line: parse_position_command, then
\* handle_position, which calls make_move for every parsed move. A panic of
\* make_move ends the process.
HandlePosition ==
    /\ cmd_state = "read"
    /\ \E r \in { handle_position(Some(cmd_input.fen), ParsedMoves(cmd_input.tokens)) } :
        /\ cmd_state' = IF r.panicked THEN "panicked" ELSE "handled"
        /\ cmd_position' = r.pos
    /\ UNCHANGED << cmd_input, printed >>
    /\ UNCHANGED << posVars, drvVars, srchVars, libVars >>

\* `println!("bestmove {}", mv)` for the best move of a search result, which is one
\* of the legal moves the search enumerates at the position. Where the side to
\* move has no king the search panics in simulate_move_and_check_king
\* (`lsb().unwrap()`) and prints nothing.
Bestmove ==
    /\ cmd_state = "handled"
    /\ printed = None
    /\ piece_bb(cmd_position, King, cmd_position.side_to_move) # { }
    /\ \E mv \in SeqToSet(NodeLegalMoves(cmd_position, cmd_position.side_to_move)) :
        printed' = Some([mv |-> mv, text |-> MoveDisplay(mv)])
    /\ UNCHANGED << cmd_state, cmd_input, cmd_position >>
    /\ UNCHANGED << posVars, drvVars, srchVars, libVars >>

----------------------------------------------------------------------------
(* The library functions exercised on their own: bitboard/position.rs to_fen,
   set_fen and zobrist_hash; search/transposition.rs; bitboard/magic.rs *)

FenIdle ==
    /\ fen_state = "idle"
    /\ fen_position = PositionEmpty
    /\ fen_other = PositionEmpty
    /\ fen_text = None
    /\ fen_parsed = None
    /\ fen_hashes = << >>
    /\ fen_keys = None

TblIdle ==
    /\ tbl_table = << >>
    /\ tbl_log = << >>

MgIdle ==
    /\ mg_state = "idle"
    /\ mg_magics = << >>
    /\ mg_attacks = << >>
    /\ mg_lookups = << >>

LibIdle == FenIdle /\ TblIdle /\ MgIdle

----------------------------------------------------------------------------
(* bitboard/position.rs: to_fen and set_fen. A String is a sequence of
   one-character strings. *)

DIGITS == << "0", "1", "2", "3", "4", "5", "6", "7", "8", "9" >>

\* u32::to_string
RECURSIVE U32ToString(_)
U32ToString(n) ==
    IF n < 10 THEN << DIGITS[n + 1] >> ELSE U32ToString(n \div 10) \o << DIGITS[(n % 10) + 1] >>

\* The `symbol` match of to_fen
PieceSymbol(piece, color) ==
    LET white == << "P", "N", "B", "R", "Q", "K" >>
        black == << "p", "n", "b", "r", "q", "k" >>
    IN  IF color = White THEN white[piece + 1] ELSE black[piece + 1]

\* `for piece in 0..6 { for color in 0..2 {` in loop order
LayerOrder ==
    [i \in 1..12 |-> << (i - 1) \div 2, (i - 1) % 2 >>]

\* The `for file in 0..8` loop of to_fen for one rank, from `file` on with `empty`
\* squares counted: every layer that holds the square pushes its symbol (the loops
\* have no break), the first one after the pending count
RECURSIVE FenRank(_, _, _, _)
FenRank(pos, rank, file, empty) ==
    LET count == IF empty > 0 THEN U32ToString(empty) ELSE << >>
    IN  IF file = 8 THEN count
        ELSE
        LET sq == SquareNew(file, rank)
            holds(l) == sq \in pos.pieces[l[1]][l[2]]
            found == SelectSeq(LayerOrder, holds)
            symbols == [i \in 1..Len(found) |-> PieceSymbol(found[i][1], found[i][2])]
        IN  IF found = << >> THEN FenRank(pos, rank, file + 1, empty + 1)
            ELSE count \o symbols \o FenRank(pos, rank, file + 1, 0)

\* `for rank in (0..8).rev()`, from `rank` down, with '/' after every rank but the last
RECURSIVE FenPlacement(_, _)
FenPlacement(pos, rank) ==
    FenRank(pos, rank, 0, 0)
    \o (IF rank > 0 THEN << "/" >> \o FenPlacement(pos, rank - 1) ELSE << >>)

\* Position::to_fen
to_fen(pos) ==
    LET rights == (IF WHITE_KING \in pos.castling_rights THEN << "K" >> ELSE << >>)
                  \o (IF WHITE_QUEEN \in pos.castling_rights THEN << "Q" >> ELSE << >>)
                  \o (IF BLACK_KING \in pos.castling_rights THEN << "k" >> ELSE << >>)
                  \o (IF BLACK_QUEEN \in pos.castling_rights THEN << "q" >> ELSE << >>)
    IN  FenPlacement(pos, 7)
        \o << " " >> \o (IF pos.side_to_move = White THEN << "w" >> ELSE << "b" >>)
        \o << " " >> \o (IF rights = << >> THEN << "-" >> ELSE rights)
        \o << " " >> \o (IF pos.en_passant = None THEN << "-" >>
                         ELSE SquareDebug(pos.en_passant[1]))
        \o << " " >> \o U32ToString(pos.halfmove_clock)
        \o << " " >> \o U32ToString(pos.fullmove_number)

\* str::split_whitespace on spaces: the maximal runs of other characters.
\* `word` is the run being read.
RECURSIVE SplitWhitespace(_, _)
SplitWhitespace(text, word) ==
    IF text = << >> THEN (IF word = << >> THEN << >> ELSE << word >>)
    ELSE IF Head(text) = " "
    THEN (IF word = << >> THEN << >> ELSE << word >>) \o SplitWhitespace(Tail(text), << >>)
    ELSE SplitWhitespace(Tail(text), Append(word, Head(text)))

\* The value of a run of decimal digits
RECURSIVE DigitsValue(_, _)
DigitsValue(chars, acc) ==
    IF chars = << >> THEN acc
    ELSE DigitsValue(Tail(chars),
                     10 * acc + (CHOOSE d \in 0..9 : DIGITS[d + 1] = Head(chars)))

\* str::parse::<u32>: an optional '+', then one or more digits. Values of ten or
\* more digits (some of which exceed u32::MAX) are taken to fail.
ParseU32(chars) ==
    LET digits == IF chars # << >> /\ Head(chars) = "+" THEN Tail(chars) ELSE chars
    IN  IF /\ digits # << >>
           /\ Len(digits) <= 9
           /\ \A i \in 1..Len(digits) : \E d \in 1..10 : DIGITS[d] = digits[i]
        THEN Some(DigitsValue(digits, 0))
        ELSE None

\* The piece and colour of a placement character, or None
PieceOfChar(c) ==
    LET lower == << "p", "n", "b", "r", "q", "k" >>
        upper == << "P", "N", "B", "R", "Q", "K" >>
    IN  IF \E i \in 1..6 : lower[i] = c
        THEN Some(<< (CHOOSE i \in 1..6 : lower[i] = c) - 1, Black >>)
        ELSE IF \E i \in 1..6 : upper[i] = c
        THEN Some(<< (CHOOSE i \in 1..6 : upper[i] = c) - 1, White >>)
        ELSE None

\* The `for c in parts[0].chars()` loop of set_fen from the i-th character, with
\* the loop's rank and file and the layers set so far. A piece character read
\* while rank is below 0 makes `rank as u8` leave the board; no text of to_fen
\* gets there, and the outcome is reported as not ok.
RECURSIVE PlacementLoop(_, _, _, _, _)
PlacementLoop(chars, i, rank, file, pcs) ==
    IF i > Len(chars) THEN [ok |-> rank = 0 /\ file = 8, pieces |-> pcs]
    ELSE
    LET c == chars[i]
    IN  CASE c = "/" ->
               IF file # 8 THEN [ok |-> FALSE, pieces |-> pcs]
               ELSE PlacementLoop(chars, i + 1, rank - 1, 0, pcs)
          [] CharOffset(RANK_CHARS, c) # None ->
               PlacementLoop(chars, i + 1, rank, file + CharOffset(RANK_CHARS, c)[1] + 1, pcs)
          [] PieceOfChar(c) # None ->
               IF file > 7 \/ rank > 7 \/ rank < 0 THEN [ok |-> FALSE, pieces |-> pcs]
               ELSE PlacementLoop(chars, i + 1, rank, file + 1,
                                  set_piece(pcs, PieceOfChar(c)[1][1], PieceOfChar(c)[1][2],
                                            SquareNew(file, rank)))
          [] OTHER -> [ok |-> FALSE, pieces |-> pcs]

\* The castling field of set_fen: the rights its characters add up to the first
\* character that is none of KQkq, and whether there was no such character
CastlingOfText(chars) ==
    LET right(c) == CASE c = "K" -> Some(WHITE_KING)
                      [] c = "Q" -> Some(WHITE_QUEEN)
                      [] c = "k" -> Some(BLACK_KING)
                      [] c = "q" -> Some(BLACK_QUEEN)
                      [] OTHER -> None
        bad == { i \in 1..Len(chars) : right(chars[i]) = None }
        read == IF bad = { } THEN Len(chars) ELSE (CHOOSE i \in bad : \A j \in bad : i <= j) - 1
    IN  IF chars = << "-" >> THEN [ok |-> TRUE, rights |-> CastleNone]
        ELSE [ok |-> bad = { }, rights |-> { right(chars[i])[1] : i \in 1..read }]

\* EnPassantOfText with the file and the rank passed to Square::new in the wrong order
EnPassantOfText_swapped(chars) ==
    IF chars = << "-" >> THEN Some(None)
    ELSE IF Len(chars) # 2 THEN None
    ELSE IF CharOffset(FILE_CHARS, chars[1]) = None \/ CharOffset(RANK_CHARS, chars[2]) = None
    THEN None
    ELSE Some(Some(SquareNew(CharOffset(RANK_CHARS, chars[2])[1],
                             CharOffset(FILE_CHARS, chars[1])[1])))

\* The en-passant field of set_fen: Some(Option<Square>), or None for an error
EnPassantOfText(chars) ==
    IF chars = << "-" >> THEN Some(None)
    ELSE IF Len(chars) # 2 THEN None
    ELSE IF CharOffset(FILE_CHARS, chars[1]) = None \/ CharOffset(RANK_CHARS, chars[2]) = None
    THEN None
    ELSE Some(Some(SquareNew(CharOffset(FILE_CHARS, chars[1])[1],
                             CharOffset(RANK_CHARS, chars[2])[1])))

\* Position::set_fen on `self`: ok is FALSE for Err(..), and pos is `self` as the
\* call leaves it (untouched when there are fewer than four fields, otherwise
\* cleared and filled up to the field that failed)
set_fen(self, fen) ==
    LET parts == SplitWhitespace(fen, << >>)
    IN  IF Len(parts) < 4 THEN [ok |-> FALSE, pos |-> self]
        ELSE
        LET placed == PlacementLoop(parts[1], 1, 7, 0, EmptyPieces)
            p1 == [PositionEmpty EXCEPT !.pieces = placed.pieces]
            side == parts[2]
            p2 == [p1 EXCEPT !.side_to_move = IF side = << "w" >> THEN White ELSE Black]
            rights == CastlingOfText(parts[3])
            p3 == [p2 EXCEPT !.castling_rights = rights.rights]
            ep == EnPassantOfText(parts[4])
            number(k, default) ==
                IF Len(parts) >= k /\ ParseU32(parts[k]) # None THEN ParseU32(parts[k])[1]
                ELSE default
        IN  IF ~placed.ok THEN [ok |-> FALSE, pos |-> p1]
            ELSE IF side \notin { << "w" >>, << "b" >> } THEN [ok |-> FALSE, pos |-> p1]
            ELSE IF ~rights.ok THEN [ok |-> FALSE, pos |-> p3]
            ELSE IF ep = None THEN [ok |-> FALSE, pos |-> p3]
            ELSE [ok |-> TRUE,
                  pos |-> [p3 EXCEPT !.en_passant = ep[1],
                                     !.halfmove_clock = number(5, 0),
                                     !.fullmove_number = number(6, 1)]]

----------------------------------------------------------------------------
(* to_fen, set_fen and zobrist_hash applied to positions of every shape *)

\* Values of the two u32 counters of a Position
HalfmoveValues == { 0, 9, 10, 999999999 }
FullmoveValues == { 0, 1, 120 }

\* The en-passant squares put on the extra positions
EnPassantValues == { A1, SquareNew(4, 2), SquareNew(3, 5), H8 }

\* How many times zobrist_hash is called in one run
MaxHashCalls == 2

\* The draws of the random Zobrist tables that are told apart
LazyDraws == { 1, 2 }

\* A position with two layers on one square: a white and a black pawn on E2
OverlapPosition ==
    [set_startpos EXCEPT !.pieces = set_piece(@, Pawn, Black, SquareNew(4, 1))]

\* The piece placements the functions are applied to
FenPlacements ==
    TestPositions
    \cup { PositionEmpty, OverlapPosition }
    \cup { [PositionEmpty EXCEPT !.en_passant = Some(sq), !.side_to_move = c] :
             sq \in EnPassantValues, c \in Colors }

\* Two positions that agree on everything zobrist_hash is specified to read
SameHashedFields(p, q) ==
    /\ p.pieces = q.pieces
    /\ p.side_to_move = q.side_to_move
    /\ p.castling_rights = q.castling_rights
    /\ (p.en_passant = None) = (q.en_passant = None)
    /\ p.en_passant # None => FileOf(p.en_passant[1]) = FileOf(q.en_passant[1])

\* The Lazy statics of utils/zobrist.rs are filled by the first call that reads
\* them and kept for the life of the process; the value is the XOR of the keys
\* that zobrist_hash selects from them
ZobristValue(keys, pos) == << keys, zobrist_hash(pos) >>

FenInit ==
    /\ fen_state = "ready"
    /\ \E p \in FenPlacements : \E h \in HalfmoveValues : \E f \in FullmoveValues :
         /\ fen_position = [p EXCEPT !.halfmove_clock = h, !.fullmove_number = f]
         /\ fen_other \in { [p EXCEPT !.halfmove_clock = (h + 1) % 1000000000,
                                      !.fullmove_number = f + 1],
                            [p EXCEPT !.halfmove_clock = h, !.fullmove_number = f,
                                      !.side_to_move = opposite(@)] }
    /\ fen_text = None
    /\ fen_parsed = None
    /\ fen_hashes = << >>
    /\ fen_keys = None

\* let fen = position.to_fen();
ToFen ==
    /\ fen_state = "ready"
    /\ fen_text' = Some(to_fen(fen_position))
    /\ fen_state' = "emitted"
    /\ UNCHANGED << fen_position, fen_other, fen_parsed, fen_hashes, fen_keys >>
    /\ UNCHANGED << posVars, drvVars, srchVars, cmdVars, tblVars, mgVars >>

\* target.set_fen(&fen), on a target in any earlier state
SetFen ==
    /\ fen_state = "emitted"
    /\ \E target \in { PositionEmpty, set_startpos, fen_other } :
         fen_parsed' = Some(set_fen(target, fen_text[1]))
    /\ fen_state' = "parsed"
    /\ UNCHANGED << fen_position, fen_other, fen_text, fen_hashes, fen_keys >>
    /\ UNCHANGED << posVars, drvVars, srchVars, cmdVars, tblVars, mgVars >>

\* position.zobrist_hash() on either of the two positions
ZobristHashCall ==
    /\ fen_state # "idle"
    /\ Len(fen_hashes) < MaxHashCalls
    /\ \E keys \in (IF fen_keys = None THEN LazyDraws ELSE { fen_keys[1] }) :
       \E pos \in { fen_position, fen_other } :
         /\ fen_keys' = Some(keys)
         /\ fen_hashes' = Append(fen_hashes, [of |-> pos, hash |-> ZobristValue(keys, pos)])
    /\ UNCHANGED << fen_state, fen_position, fen_other, fen_text, fen_parsed >>
    /\ UNCHANGED << posVars, drvVars, srchVars, cmdVars, tblVars, mgVars >>

----------------------------------------------------------------------------
(* search/transposition.rs: the table as the code keeps it, a vector of
   Option<TTEntry> indexed by hash % size. The table of the model has at most
   TableSize slots; the hashes are small enough that `hash as usize` leaves
   them unchanged on every target. *)

TableSize == 3
MaxHash == 4
MaxCalls == 3

\* The entries that are stored: they differ in every field
TableEntries ==
    { [score |-> 35, best_move |-> MoveNew(E1, F1), depth |-> 2, node_type |-> "Exact"],
      [score |-> -120, best_move |-> MoveNew(A8, A1), depth |-> 5, node_type |-> "Lower"] }

\* TranspositionTable::new / with_size: every slot None
tt_new(num_entries) == [i \in 1..num_entries |-> None]

\* TranspositionTable::hash_index (slot i of the vector is element i + 1 here)
tt_hash_index(table, hash) == hash % Len(table)

\* TranspositionTable::probe
tt_probe(table, hash) == table[tt_hash_index(table, hash) + 1]

\* TranspositionTable::store that leaves an occupied slot as it is
tt_store_if_empty(table, hash, entry) ==
    IF table[tt_hash_index(table, hash) + 1] = None
    THEN [table EXCEPT ![tt_hash_index(table, hash) + 1] = Some(entry)]
    ELSE table

\* TranspositionTable::store
tt_store(table, hash, entry) ==
    [table EXCEPT ![tt_hash_index(table, hash) + 1] = Some(entry)]

\* TranspositionTable::clear
tt_clear(table) == [i \in 1..Len(table) |-> None]

TblInit ==
    /\ \E num_entries \in 1..TableSize : tbl_table = tt_new(num_entries)
    /\ tbl_log = << >>

\* tt.store(hash, entry)
TableStore ==
    /\ tbl_table # << >>
    /\ Len(tbl_log) < MaxCalls
    /\ \E hash \in 0..MaxHash : \E entry \in TableEntries :
         /\ tbl_table' = tt_store(tbl_table, hash, entry)
         /\ tbl_log' = Append(tbl_log, [op |-> "store", hash |-> hash, entry |-> entry,
                                        result |-> None])
    /\ UNCHANGED << posVars, drvVars, srchVars, cmdVars, fenVars, mgVars >>

\* tt.probe(hash)
TableProbe ==
    /\ tbl_table # << >>
    /\ Len(tbl_log) < MaxCalls
    /\ \E hash \in 0..MaxHash :
         tbl_log' = Append(tbl_log, [op |-> "probe", hash |-> hash, entry |-> None,
                                     result |-> tt_probe(tbl_table, hash)])
    /\ UNCHANGED tbl_table
    /\ UNCHANGED << posVars, drvVars, srchVars, cmdVars, fenVars, mgVars >>

\* tt.clear()
TableClear ==
    /\ tbl_table # << >>
    /\ Len(tbl_log) < MaxCalls
    /\ tbl_table' = tt_clear(tbl_table)
    /\ tbl_log' = Append(tbl_log, [op |-> "clear", hash |-> 0, entry |-> None,
                                   result |-> None])
    /\ UNCHANGED << posVars, drvVars, srchVars, cmdVars, fenVars, mgVars >>

----------------------------------------------------------------------------
(* bitboard/magic.rs. An occupancy is a Bitboard, the set of its squares; a
   magic and a product are u64 values kept as four 16-bit limbs, the least
   significant first. *)

Pow2 == << 1, 2, 4, 8, 16, 32, 64, 128, 256, 512, 1024, 2048, 4096, 8192, 16384, 32768 >>
LimbBase == 65536

\* The one bits of a limb, as bit numbers 0..15
LimbBits(n) == { b \in 0..15 : (n \div Pow2[b + 1]) % 2 = 1 }

\* The u64 with the given limbs, written most significant first
U64(l3, l2, l1, l0) == << l0, l1, l2, l3 >>

\* x << s on u64, 0 <= s < 64: the bits shifted out are lost
ShiftLeft(x, s) ==
    LET q == s \div 16
        wide == [k \in 1..4 |-> x[k] * Pow2[(s % 16) + 1]]
        low(k) == IF k >= 1 THEN wide[k] % LimbBase ELSE 0
        high(k) == IF k >= 1 THEN wide[k] \div LimbBase ELSE 0
    IN  [k \in 1..4 |-> low(k - q) + high(k - q - 1)]

\* The limb-wise sum of the limb tuples of a sequence, carries not yet taken
RECURSIVE LimbSums(_, _)
LimbSums(terms, i) ==
    IF i > Len(terms) THEN << 0, 0, 0, 0 >>
    ELSE LET rest == LimbSums(terms, i + 1)
         IN  [k \in 1..4 |-> terms[i][k] + rest[k]]

\* The carries taken, and the carry out of the top limb dropped (wrapping)
Normalise(t) ==
    LET l0 == t[1]
        l1 == t[2] + (l0 \div LimbBase)
        l2 == t[3] + (l1 \div LimbBase)
        l3 == t[4] + (l2 \div LimbBase)
    IN  << l0 % LimbBase, l1 % LimbBase, l2 % LimbBase, l3 % LimbBase >>

\* a.wrapping_mul(m), as limbs, from m shifted by each one bit of a; `shifted`
\* is the limb tuple of m << s for every bit s that a can hold
WrappingMulLimbs(a, shifted) ==
    LET bits == BitboardIter(a)
    IN  Normalise(LimbSums([i \in 1..Len(bits) |-> shifted[bits[i]]], 1))

\* magic << s for the bits s of mask
ShiftedLimbs(magic, mask) == [s \in mask |-> ShiftLeft(magic, s)]

\* u64::count_ones of a limb tuple
count_ones(limbs) ==
    Cardinality(LimbBits(limbs[1])) + Cardinality(LimbBits(limbs[2]))
    + Cardinality(LimbBits(limbs[3])) + Cardinality(LimbBits(limbs[4]))

\* MagicIndex with the shift amount one too small, which keeps one bit too many
MagicIndex_wide(occupied, shifted, shift) ==
    WrappingMulLimbs(occupied, shifted)[4] \div Pow2[16 - shift]

\* (occupied.wrapping_mul(magic) >> (64 - shift)) as usize, for 1 <= shift <= 16:
\* the top `shift` bits of the product
MagicIndex(occupied, shifted, shift) ==
    WrappingMulLimbs(occupied, shifted)[4] \div Pow2[16 - shift + 1]

\* asm::pdep_neon(i, mask): bit k of i goes to the k-th lowest one bit of mask
pdep_neon(i, mask) ==
    LET bits == BitboardIter(mask)
    IN  { bits[k] : k \in { j \in 1..Len(bits) : (i \div Pow2[j]) % 2 = 1 } }

\* The four loops of bishop_relevant_mask: each walks a diagonal while the rank
\* and the file stay off the board's edge
bishop_relevant_mask(square) ==
    LET rank == RankOf(square)
        file == FileOf(square)
    IN  { SquareNew(file - k, rank + k) : k \in { j \in 1..7 : rank + j < 7 /\ file - j > 0 } }
        \cup { SquareNew(file + k, rank + k) : k \in { j \in 1..7 : rank + j < 7 /\ file + j < 7 } }
        \cup { SquareNew(file - k, rank - k) : k \in { j \in 1..7 : rank - j > 0 /\ file - j > 0 } }
        \cup { SquareNew(file + k, rank - k) : k \in { j \in 1..7 : rank - j > 0 /\ file + j < 7 } }

\* The four loops of rook_relevant_mask
rook_relevant_mask(square) ==
    LET rank == RankOf(square)
        file == FileOf(square)
    IN  { SquareNew(file, r) : r \in { j \in 0..7 : j > rank /\ j < 7 } }
        \cup { SquareNew(file, r) : r \in { j \in 0..7 : j < rank /\ j > 0 } }
        \cup { SquareNew(f, rank) : f \in { j \in 0..7 : j > file /\ j < 7 } }
        \cup { SquareNew(f, rank) : f \in { j \in 0..7 : j < file /\ j > 0 } }

Sliders == { "bishop", "rook" }

relevant_mask(slider, square) ==
    IF slider = "bishop" THEN bishop_relevant_mask(square) ELSE rook_relevant_mask(square)

\* generate_bishop_attacks_slow / generate_rook_attacks_slow
generate_attacks_slow(slider, square, occupied) ==
    SlowAttacks(square, occupied,
                IF slider = "bishop" THEN BishopDirections ELSE RookDirections)

\* 1u64 << mask.count()
NumSubsets(mask) == Pow2[Cardinality(mask) + 1]

\* The test of find_magic: magic.wrapping_mul(mask) has at least six one bits
\* and no two subsets of the mask get the same index
MagicAccepted(magic, mask) ==
    LET shifted == ShiftedLimbs(magic, mask)
        bits == Cardinality(mask)
    IN  /\ count_ones(WrappingMulLimbs(mask, shifted)) >= 6
        /\ Cardinality({ MagicIndex(pdep_neon(i, mask), shifted, bits) :
                         i \in 0..(NumSubsets(mask) - 1) }) = NumSubsets(mask)

----------------------------------------------------------------------------
(* init_magics and the lookups, for the squares of MagicWork *)

\* The lengths of BISHOP_ATTACKS and ROOK_ATTACKS
BISHOP_ATTACKS_LEN == 5248
ROOK_ATTACKS_LEN == 102400

AttacksLen(slider) == IF slider = "bishop" THEN BISHOP_ATTACKS_LEN ELSE ROOK_ATTACKS_LEN

\* The squares whose table segments are written and read, in the order in which
\* init_magics reaches them (two neighbouring bishop squares among them)
MagicWork ==
    << << "bishop", A1 >>, << "bishop", SquareNew(3, 3) >>, << "bishop", SquareNew(4, 3) >>,
       << "rook", SquareNew(3, 3) >> >>

\* Values that `rand::random() & rand::random() & rand::random()` can return:
\* 0, 1, and one or two that find_magic accepts for each square of MagicWork
MagicDraws ==
    { U64(0, 0, 0, 0), U64(0, 0, 0, 1),
      U64(8208, 1424, 146, 64), U64(130, 1029, 2054, 128),
      U64(1547, 2048, 768, 16641), U64(2080, 4352, 2049, 16524),
      U64(34849, 32896, 4104, 8196),
      U64(512, 34850, 50, 64), U64(32, 20481, 41, 96) }

\* find_magic: the values its loop can return, which are the draws it accepts
find_magic(mask) == { magic \in MagicDraws : MagicAccepted(magic, mask) }

\* `offset` when the loop of init_bishop_attacks / init_rook_attacks reaches sq
RECURSIVE SegmentOffset(_, _)
SegmentOffset(slider, sq) ==
    IF sq = 0 THEN 0
    ELSE SegmentOffset(slider, sq - 1) + NumSubsets(relevant_mask(slider, sq - 1))

\* The MagicEntry of one square
MagicEntryOf(slider, sq, magic) ==
    [magic |-> magic, mask |-> relevant_mask(slider, sq),
     shift |-> Cardinality(relevant_mask(slider, sq)), offset |-> SegmentOffset(slider, sq)]

\* The `for subset_idx in 0..num_subsets` loop of init_*_attacks on `table` (a
\* function from the indices written so far to attack sets): of two subsets
\* with one index the later is the one that stays
WriteSegment(table, slider, sq, entry) ==
    LET shifted == ShiftedLimbs(entry.magic, entry.mask)
        index == [i \in 0..(NumSubsets(entry.mask) - 1) |->
                    MagicIndex(pdep_neon(i, entry.mask), shifted, entry.shift) + entry.offset]
        written == { index[i] : i \in DOMAIN index }
        last(x) == CHOOSE i \in DOMAIN index :
                     index[i] = x /\ \A j \in DOMAIN index : index[j] = x => j <= i
    IN  [x \in DOMAIN table \cup written |->
           IF x \in written
           THEN generate_attacks_slow(slider, sq, pdep_neon(last(x), entry.mask))
           ELSE table[x]]

\* The ways of choosing a magic for every square of MagicWork from the i-th on
RECURSIVE MagicChoices(_)
MagicChoices(i) ==
    IF i > Len(MagicWork) THEN { << >> }
    ELSE { << magic >> \o rest :
           magic \in find_magic(relevant_mask(MagicWork[i][1], MagicWork[i][2])),
           rest \in MagicChoices(i + 1) }

\* The two statics after the loops ran over MagicWork[1..i] with the magics chosen
RECURSIVE TablesAfter(_, _)
TablesAfter(choice, i) ==
    IF i = 0 THEN [magics |-> [s \in Sliders |-> << >>], attacks |-> [s \in Sliders |-> << >>]]
    ELSE
    LET before == TablesAfter(choice, i - 1)
        slider == MagicWork[i][1]
        sq == MagicWork[i][2]
        entry == MagicEntryOf(slider, sq, choice[i])
    IN  [magics |-> [before.magics EXCEPT ![slider] =
                       [x \in DOMAIN @ \cup { sq } |-> IF x = sq THEN entry ELSE @[x]]],
         attacks |-> [before.attacks EXCEPT ![slider] = WriteSegment(@, slider, sq, entry)]]

\* bishop_attacks_magic / rook_attacks_magic: the index used and what is read
\* there; a slot never written holds Bitboard::EMPTY, an index past the end of
\* the array is a panic
attacks_magic(magics, attacks, slider, square, occupied) ==
    LET entry == magics[slider][square]
        relevant_occupied == occupied \cap entry.mask
        index == MagicIndex(relevant_occupied, ShiftedLimbs(entry.magic, entry.mask),
                            entry.shift) + entry.offset
    IN  [index |-> index,
         attacks |-> IF index \in DOMAIN attacks[slider] THEN Some(attacks[slider][index])
                     ELSE IF index < AttacksLen(slider) THEN Some({ })
                     ELSE None]

\* Occupied squares outside the relevance mask that are added to its subsets:
\* none, the origin, the board's edge, and every square outside the mask
ExtraOccupancies(slider, sq) ==
    { { }, { sq },
      { s \in Squares : RankOf(s) \in { 0, 7 } \/ FileOf(s) \in { 0, 7 } },
      Squares \ relevant_mask(slider, sq) }

MgInit ==
    /\ mg_state = "start"
    /\ mg_magics = [s \in Sliders |-> << >>]
    /\ mg_attacks = [s \in Sliders |-> << >>]
    /\ mg_lookups = << >>

\* init_magics()
InitMagics ==
    /\ mg_state = "start"
    /\ \E choice \in MagicChoices(1) :
       \E after \in { TablesAfter(choice, Len(MagicWork)) } :
         /\ mg_magics' = after.magics
         /\ mg_attacks' = after.attacks
    /\ mg_state' = "ready"
    /\ UNCHANGED mg_lookups
    /\ UNCHANGED << posVars, drvVars, srchVars, cmdVars, fenVars, tblVars >>

\* bishop_attacks_magic(square, occupied) / rook_attacks_magic(square, occupied)
\* for every subset of the square's mask joined with one set of other squares
LookupMagic ==
    /\ mg_state = "ready"
    /\ \E w \in 1..Len(MagicWork) :
       \E extra \in ExtraOccupancies(MagicWork[w][1], MagicWork[w][2]) :
         LET slider == MagicWork[w][1]
             sq == MagicWork[w][2]
             mask == relevant_mask(slider, sq)
         IN  mg_lookups' =
               << [slider |-> slider, square |-> sq, extra |-> extra,
                   found |-> [i \in 0..(NumSubsets(mask) - 1) |->
                                attacks_magic(mg_magics, mg_attacks, slider, sq,
                                              pdep_neon(i, mask) \cup extra)]] >>
    /\ UNCHANGED << mg_state, mg_magics, mg_attacks >>
    /\ UNCHANGED << posVars, drvVars, srchVars, cmdVars, fenVars, tblVars >>

----------------------------------------------------------------------------
(* Specifications *)

Init == DrvInit /\ PosIdle /\ SrchIdle /\ CmdIdle /\ LibIdle

Next ==
    \/ IsReady
    \/ NewGame
    \/ PositionCmd
    \/ Go
    \/ Stop
    \/ StopRecv
    \/ Quit
    \/ Join
    \/ QuitRecv
    \/ Drain
    \/ \E id \in SearchIds : WorkerSearch(id)
    \/ \E id \in SearchIds : WorkerObserveStop(id)
    \/ \E id \in SearchIds : WorkerFinish(id)
    \/ \E id \in SearchIds : WorkerSend(id)

\* The protocol driver with its worker threads
Spec == Init /\ [][Next]_vars

\* The steps that need no input line: the rest of a handler, the drain after
\* it, and the worker threads
InternalStep ==
    \/ StopRecv
    \/ Join
    \/ QuitRecv
    \/ Drain
    \/ \E id \in SearchIds : WorkerObserveStop(id) \/ WorkerFinish(id) \/ WorkerSend(id)

\* The same under the scheduling the threads get: the controller and every
\* worker thread keep running; nothing makes a line arrive on stdin.
FairSpec == Init /\ [][Next]_vars /\ WF_vars(InternalStep)

PosSpecInit == PosInit /\ DrvInit /\ SrchIdle /\ CmdIdle /\ LibIdle

PosNext ==
    \/ Generate
    \/ MakeMove
    \/ UnmakeMove

\* The position machinery on the test positions
PosSpec == PosSpecInit /\ [][PosNext]_vars

SearchSpecInit == SrchInit /\ DrvInit /\ PosIdle /\ CmdIdle /\ LibIdle

SearchNext ==
    \/ IterativeDeepeningEnter
    \/ Iterate
    \/ Return
    \/ FixedAlphaBeta
    \/ FixedNegamax

\* The search functions on the searched positions
SearchSpec == SearchSpecInit /\ [][SearchNext]_vars

CommandSpecInit == CmdInit /\ DrvInit /\ PosIdle /\ SrchIdle /\ LibIdle

CommandNext ==
    \/ HandlePosition
    \/ Bestmove

\* One `position` line and the `bestmove` line for a move of its position
CommandSpec == CommandSpecInit /\ [][CommandNext]_vars

----------------------------------------------------------------------------
(* Properties of the protocol driver (Spec, FairSpec) *)

\* The result of search id is on the channel / a bestmove line answers search id
InChannel(id) == \E i \in 1..Len(channel) : channel[i].search = id
Emitted(id) == \E i \in 1..Len(output) : output[i].search = id
LinesFor(id) == Cardinality({ i \in 1..Len(output) : output[i].search = id })
InFlight(id) == worker[id] \in {"searching", "returning"}

\* C1: once a worker has pushed its result onto the channel, the driver
\* eventually prints the bestmove line for that search even if no further line
\* arrives on stdin: with k lines read so far, either the line is printed or it
\* was a further input line that arrived.
C1_ResultEventuallyEmitted ==
    \A id \in SearchIds : \A k \in 0..(MaxCmds - 1) :
        (InChannel(id) /\ n_cmds = k) ~> (Emitted(id) \/ n_cmds > k)

\* C2: when quit has been handled and the loop is left, every search that was
\* started has been answered by exactly one bestmove line.
C2_ExactlyOneBestmove == (pc = "done") => \A id \in 1..n_go : LinesFor(id) = 1

\* C3: whenever the driver takes a result without a move from the channel, it
\* prints one line for it: the emergency move of the root position, or 0000
\* (move = None) when there is none.
C3_NoMoveResultAnswered ==
    [][ (channel # <<>> /\ channel' = Tail(channel) /\ Head(channel).best_move = None)
        => output' = Append(output, [move |-> generate_emergency_move(position),
                                     search |-> Head(channel).search]) ]_vars

\* C4: at every moment at most one search worker thread is running.
C4_SingleWorker == Cardinality({ id \in SearchIds : InFlight(id) }) <= 1

\* C5: a worker that was searching when stop set the flag finds the flag set
\* for as long as it has not observed it.
C5_FlagStaysSetForStoppedWorker ==
    \A id \in stop_requested : worker[id] = "searching" => stop_flag = TRUE

\* C6: when go starts a new search the channel is empty, and every bestmove
\* line printed carries the result of the search started last.
C6_DrainedBeforeGo ==
    [][ /\ (n_go' = n_go + 1 => channel = <<>>)
        /\ (Len(output') > Len(output) => output'[Len(output')].search = n_go) ]_vars

\* C7: while the driver waits in join for a worker, the cancel flag is set.
C7_FlagSetBeforeJoin == (pc = "join") => stop_flag = TRUE

\* C8: a worker in flight searches the root position as it was when its go was
\* handled; no step of the controller changes the position clone, the table or
\* the progress of a worker in flight, and no step of a worker changes the
\* controller's position, handle or output.
C8_WorkerIsolation ==
    /\ [](\A id \in SearchIds : InFlight(id) => WorkerRoot(id) = root_at_go[id])
    /\ [][ pc' # pc =>
             \A id \in SearchIds : InFlight(id) =>
                 /\ worker_pos'[id] = worker_pos[id]
                 /\ worker_tt'[id] = worker_tt[id]
                 /\ worker'[id] = worker[id] ]_vars
    /\ [][ pc' = pc => UNCHANGED << position, search_handle, output, n_go >> ]_vars

\* C8 witness: a worker that has searched is in flight while the controller's
\* position is no longer the one its go was handled on, and a later go was handled.
C8_Witness ==
    \E id \in SearchIds :
        /\ InFlight(id)
        /\ worker_tt[id] > 0
        /\ root_at_go[id] # Some(position)
        /\ n_go > id

----------------------------------------------------------------------------
(* Properties of the position machinery (PosSpec) *)

\* C9: unmake_move applied to the Undo of make_move(m) restores the position
\* exactly, for every legal move m of every kind.
C9_UnmakeRestores == (expect # None) => board = expect[1]

\* The conditions of a castling move of the side to move: the right is held,
\* the squares between king and rook are empty
CastlingAvailable(pos, kingside) ==
    LET white == pos.side_to_move = White
        right == IF white THEN (IF kingside THEN WHITE_KING ELSE WHITE_QUEEN)
                 ELSE (IF kingside THEN BLACK_KING ELSE BLACK_QUEEN)
        home == IF white THEN 0 ELSE 56
        between == IF kingside THEN { home + 5, home + 6 }
                   ELSE { home + 1, home + 2, home + 3 }
    IN  /\ right \in pos.castling_rights
        /\ between \cap Occupied(pos) = {}
        /\ (home + 4) \in piece_bb(pos, King, pos.side_to_move)
        /\ (IF kingside THEN home + 7 ELSE home) \in piece_bb(pos, Rook, pos.side_to_move)

\* The king's origin, transit and destination squares
KingPath(pos, kingside) ==
    LET home == IF pos.side_to_move = White THEN 0 ELSE 56
    IN  IF kingside THEN { home + 4, home + 5, home + 6 }
        ELSE { home + 4, home + 3, home + 2 }

KingPathSafe(pos, kingside) ==
    KingPath(pos, kingside) \cap compute_enemy_attacks(pos, opposite(pos.side_to_move)) = {}

CastlingMoveOf(pos, kingside) ==
    LET home == IF pos.side_to_move = White THEN 0 ELSE 56
    IN  MoveCastling(home + 4, IF kingside THEN home + 6 ELSE home + 2)

\* C10: the legal-move list a search node enumerates contains the castling move
\* when the right is held, the squares between are empty and the king's three
\* squares are not attacked, and does not contain it when one of them is attacked.
C10_CastlingInNodeList ==
    (legal_moves # None) =>
        \A kingside \in BOOLEAN :
            CastlingAvailable(board, kingside) =>
                (KingPathSafe(board, kingside)
                    <=> CastlingMoveOf(board, kingside) \in SeqToSet(legal_moves[1]))

----------------------------------------------------------------------------
(* Properties of the search (SearchSpec) *)

\* The side to move has its king on a square the opponent attacks
InCheck(pos) ==
    piece_bb(pos, King, pos.side_to_move)
        \cap compute_enemy_attacks(pos, opposite(pos.side_to_move)) # {}

NoLegalMove(pos) == NodeLegalMoves(pos, pos.side_to_move) = << >>

\* The legal moves of a position that checkmate the opponent
MatingMoves(pos) ==
    { mv \in SeqToSet(NodeLegalMoves(pos, pos.side_to_move)) :
        LET child == make_move(pos, mv).pos IN NoLegalMove(child) /\ InCheck(child) }

\* C11: a depth-2 search of a position with a checkmating root move returns without
\* an arithmetic overflow and its best move is a checkmating move (a1a8 for
\* 6k1/5ppp/8/8/8/8/5PPP/R5K1 w - - 0 1).
C11_MateInOneReturned ==
    (fixed_ab # None /\ max_depth = 2 /\ MatingMoves(root_position) # {}) =>
        /\ ~fixed_ab[1].panicked
        /\ fixed_ab[1].best_move # None
        /\ fixed_ab[1].best_move[1] \in MatingMoves(root_position)

\* C12: a search with remaining depth at least 1 of a position without a legal move
\* returns a negative (mate) score when the side to move is in check, and returns
\* score 0 and no move when it is not (7k/5Q2/6K1/8/8/8/8/8 b - - 0 1).
C12_TerminalNodeScore ==
    (fixed_ab # None /\ max_depth >= 1 /\ NoLegalMove(root_position)) =>
        /\ ~fixed_ab[1].panicked
        /\ InCheck(root_position) => fixed_ab[1].score < 0
        /\ ~InCheck(root_position) =>
                fixed_ab[1].score = 0 /\ fixed_ab[1].best_move = None

\* C13: the move iterative_deepening returns is the best move of the deepest
\* iteration that was not interrupted by the flag or the time limit.
C13_DeepestCompletedReturned ==
    (phase = "returned" /\ completed # None /\ completed[1] # None) =>
        search_result.best_move = completed[1]

\* C14: when the root position has a legal move, iterative_deepening returns, and
\* the best move of its result is present and is a legal move of the root position,
\* whenever the flag is set or the time runs out and for every depth ceiling.
C14_LegalMoveReturned ==
    ~NoLegalMove(root_position) =>
        /\ phase # "panicked"
        /\ phase = "returned" =>
            /\ search_result.best_move # None
            /\ search_result.best_move[1]
                 \in SeqToSet(NodeLegalMoves(root_position, root_position.side_to_move))

\* C15: no node of the search stores an entry in the transposition table after its
\* move loop was left because the flag was set or the time limit was reached.
C15_NoPartialStore == tt.stored_partial = FALSE

\* C16: no node of the search returns the score or move of, or narrows its window
\* from, a table entry that was stored for a different hash in the same slot.
C16_NoForeignEntryUsed == tt.acted_foreign = FALSE

\* C20: with no poll ever reading "stop", alpha_beta_search at depth d with the full
\* window on an empty table and negamax at depth d return the same score for the
\* same position.
C20_AlphaBetaEqualsNegamax ==
    (fixed_ab # None /\ fixed_nm # None) =>
        /\ fixed_ab[1].panicked = fixed_nm[1].panicked
        /\ ~fixed_ab[1].panicked => fixed_ab[1].score = fixed_nm[1].score

----------------------------------------------------------------------------
(* Properties of the position command and the bestmove line (CommandSpec) *)

\* The legal moves of a position that a parsed token denotes: same from-square,
\* to-square and promotion piece
DenotedMoves(pos, mv) ==
    { m \in SeqToSet(AllLegalMoves(pos)) :
        /\ m.from = mv.from
        /\ m.to = mv.to
        /\ (m.move_type = "Promotion") = (mv.move_type = "Promotion")
        /\ m.move_type = "Promotion" => m.promo = mv.promo }

\* The position after the tokens when each one that denotes a legal move is played
\* as that move and every other one is skipped
RECURSIVE PlayedLegally(_, _)
PlayedLegally(pos, moves) ==
    IF moves = << >> THEN pos
    ELSE IF DenotedMoves(pos, Head(moves)) = {} THEN PlayedLegally(pos, Tail(moves))
    ELSE PlayedLegally(make_move(pos, CHOOSE m \in DenotedMoves(pos, Head(moves)) : TRUE).pos,
                       Tail(moves))

\* Per token, along that play: "illegal" when it denotes no legal move, else the
\* type of the move it denotes
RECURSIVE TokenKinds(_, _)
TokenKinds(pos, moves) ==
    IF moves = << >> THEN << >>
    ELSE IF DenotedMoves(pos, Head(moves)) = {}
    THEN << "illegal" >> \o TokenKinds(pos, Tail(moves))
    ELSE LET m == CHOOSE m \in DenotedMoves(pos, Head(moves)) : TRUE
         IN  << m.move_type >> \o TokenKinds(make_move(pos, m).pos, Tail(moves))

LineKinds == SeqToSet(TokenKinds(cmd_input.fen, ParsedMoves(cmd_input.tokens)))

\* C17: a line whose well-formed tokens are illegal moves, or ordinary legal moves
\* and promotions, leaves the position those legal moves lead to, the illegal tokens
\* being skipped; handling it does not panic.
C17_IllegalTokenSkipped ==
    (cmd_state # "read" /\ "illegal" \in LineKinds
        /\ LineKinds \subseteq { "illegal", "Normal", "Promotion" }) =>
        /\ cmd_state # "panicked"
        /\ cmd_position = PlayedLegally(cmd_input.fen, ParsedMoves(cmd_input.tokens))

\* C18: a line whose tokens all denote legal moves leaves the position reached by
\* playing those moves: an en-passant token removes the captured pawn, a castling
\* token moves the rook with the king.
C18_TokenPlayedAsLegalMove ==
    (cmd_state # "read" /\ "illegal" \notin LineKinds) =>
        /\ cmd_state # "panicked"
        /\ cmd_position = PlayedLegally(cmd_input.fen, ParsedMoves(cmd_input.tokens))

\* The text up to its first space
RECURSIVE FirstToken(_)
FirstToken(text) ==
    IF text = << >> \/ Head(text) = " " THEN << >>
    ELSE << Head(text) >> \o FirstToken(Tail(text))

TokenChars == SeqToSet(FILE_CHARS) \cup SeqToSet(RANK_CHARS) \cup { "q", "r", "b", "n" }

\* C19: the text printed for a move after `bestmove` is a token of four or five
\* characters out of a..h, 1..8, q, r, b, n, and parse_uci_move reads from it the
\* move's from-square, to-square and promotion piece.
C19_BestmoveTokenRoundTrip ==
    (printed # None) =>
        LET mv == printed[1].mv
            token == FirstToken(printed[1].text)
            parsed == parse_uci_move(token)
        IN  /\ Len(token) \in { 4, 5 }
            /\ SeqToSet(token) \subseteq TokenChars
            /\ parsed # None
            /\ parsed[1].from = mv.from
            /\ parsed[1].to = mv.to
            /\ (parsed[1].move_type = "Promotion") = (mv.move_type = "Promotion")
            /\ mv.move_type = "Promotion" => parsed[1].promo = mv.promo

----------------------------------------------------------------------------
(* Properties of repeated runs of the search (SearchSpec) *)

RECURSIVE UndisturbedRun(_, _, _, _, _, _)

\* The run of iterative_deepening in which no poll reads "stop", no time check
\* between two depths breaks the loop and no two hashes share a slot: depths d to
\* ceiling on the table mem, each result replacing the one before.
UndisturbedRun(pos, d, ceiling, mem, result, checks) ==
    IF d > ceiling
    THEN [panicked |-> FALSE,
          best_move |-> IF result.best_move = None
                        THEN generate_fallback_move(pos, pos.side_to_move)
                        ELSE result.best_move,
          score |-> result.score]
    ELSE LET r == alpha_beta_search(d, ALPHA_INIT, BETA_INIT, pos.side_to_move, mem, pos,
                                    Never, [keys |-> "distinct", overflow_checks |-> checks])
         IN  IF r.panicked THEN [panicked |-> TRUE, best_move |-> None, score |-> 0]
             ELSE UndisturbedRun(pos, d + 1, ceiling, r.mem, r, checks)

\* C21: with the flag never set, every run of iterative_deepening to a fixed depth
\* on a position returns the best move and the score of one and the same run, the
\* one that the time manager and the key draw leave undisturbed.
C21_SameResultEveryRun ==
    (phase = "returned" /\ clock = Never) =>
        \A u \in { UndisturbedRun(root_position, 1, max_depth, TranspositionTableNew,
                                  ResultInit, env.overflow_checks) } :
            ~u.panicked =>
                /\ search_result.best_move = u.best_move
                /\ search_result.score = u.score

----------------------------------------------------------------------------
(* Properties of the legal-move filter and of make_move (PosSpec) *)

\* The square is attacked by a piece of colour `by`, found from the square outwards:
\* a pawn of that colour stands where a pawn of the other colour on sq would capture,
\* a knight a knight's move away, a slider on an open line, the king next to it.
SquareAttackedBy(pos, sq, by) ==
    LET occupied == Occupied(pos)
        diagonal == piece_bb(pos, Bishop, by) \cup piece_bb(pos, Queen, by)
        straight == piece_bb(pos, Rook, by) \cup piece_bb(pos, Queen, by)
    IN  \/ pawn_attacks(sq, opposite(by)) \cap piece_bb(pos, Pawn, by) # {}
        \/ knight_attacks(sq) \cap piece_bb(pos, Knight, by) # {}
        \/ SlowAttacks(sq, occupied, BishopDirections) \cap diagonal # {}
        \/ SlowAttacks(sq, occupied, RookDirections) \cap straight # {}
        \/ king_attacks(sq) \cap piece_bb(pos, King, by) # {}

\* After the move the mover's king stands on a square no enemy piece attacks
KingSafeAfter(pos, mv, color) ==
    LET after == make_move(pos, mv).pos
    IN  \A k \in piece_bb(after, King, color) : ~SquareAttackedBy(after, k, opposite(color))

Layers == Pieces \X Colors

\* No square is set in two layers
LayersDisjoint(pos) ==
    \A a \in Layers : \A b \in Layers :
        a # b => pos.pieces[a[1]][a[2]] \cap pos.pieces[b[1]][b[2]] = {}

\* C23: after make_move of a move of the legal-move list, no square is set in two
\* of the twelve piece layers, and the squares of the side that moved are disjoint
\* from the squares of the other side.
C23_LayersStayDisjoint ==
    undo_stack # << >> =>
        /\ LayersDisjoint(board)
        /\ ColorPieces(board, White) \cap ColorPieces(board, Black) = {}

\* A capture has been made: the destination square held a piece of the other side
C23_Witness ==
    /\ undo_stack # << >>
    /\ Head(undo_stack).undo.captured # None
    /\ Head(undo_stack).undo.mv.to \in ColorPieces(Head(undo_stack).before, board.side_to_move)

FenSpecInit == FenInit /\ DrvInit /\ PosIdle /\ SrchIdle /\ CmdIdle /\ TblIdle /\ MgIdle

FenNext ==
    \/ ToFen
    \/ SetFen
    \/ ZobristHashCall

FenSpec == FenSpecInit /\ [][FenNext]_vars

\* The position the round trip ended with
Parsed == fen_parsed[1].pos

\* C24: for every position whose layers are pairwise disjoint, set_fen on the
\* text of to_fen succeeds and leaves a position with the same layers, side to
\* move, castling rights, en-passant target, halfmove clock and fullmove number.
C24_FenRoundTrip ==
    (fen_state = "parsed" /\ LayersDisjoint(fen_position)) =>
        /\ fen_parsed[1].ok
        /\ Parsed.pieces = fen_position.pieces
        /\ Parsed.side_to_move = fen_position.side_to_move
        /\ Parsed.castling_rights = fen_position.castling_rights
        /\ Parsed.en_passant = fen_position.en_passant
        /\ Parsed.halfmove_clock = fen_position.halfmove_clock
        /\ Parsed.fullmove_number = fen_position.fullmove_number

C24_Witness ==
    /\ fen_state = "parsed"
    /\ fen_parsed[1].ok
    /\ ColorPieces(fen_position, White) # { }
    /\ ColorPieces(fen_position, Black) # { }
    /\ fen_position.castling_rights # CastleNone
    /\ fen_position.halfmove_clock >= 10

TableSpecInit == TblInit /\ DrvInit /\ PosIdle /\ SrchIdle /\ CmdIdle /\ FenIdle /\ MgIdle

TableNext ==
    \/ TableStore
    \/ TableProbe
    \/ TableClear

TableSpec == TableSpecInit /\ [][TableNext]_vars

\* The calls before the k-th that decide what a probe of `hash` finds: the clears
\* and the stores to the slot of `hash`
DecidingCalls(k, hash) ==
    { j \in 1..(k - 1) :
        \/ tbl_log[j].op = "clear"
        \/ /\ tbl_log[j].op = "store"
           /\ tbl_log[j].hash % Len(tbl_table) = hash % Len(tbl_table) }

LastDeciding(k, hash) ==
    CHOOSE j \in DecidingCalls(k, hash) : \A i \in DecidingCalls(k, hash) : i <= j

\* C26: a probe whose slot was last written by store(h, e), with no clear since,
\* returns an entry with e's score, depth, best move and bound kind; a probe
\* with a clear and no store to its slot since returns none.
C26_ProbeAfterStoreAndClear ==
    \A k \in 1..Len(tbl_log) :
        (tbl_log[k].op = "probe" /\ DecidingCalls(k, tbl_log[k].hash) # { }) =>
            LET last == tbl_log[LastDeciding(k, tbl_log[k].hash)]
                found == tbl_log[k].result
            IN  IF last.op = "clear" THEN found = None
                ELSE /\ found # None
                     /\ found[1].score = last.entry.score
                     /\ found[1].depth = last.entry.depth
                     /\ found[1].best_move = last.entry.best_move
                     /\ found[1].node_type = last.entry.node_type

C26_Witness ==
    /\ Len(tbl_log) = 3
    /\ Len(tbl_table) > 1
    /\ tbl_log[1].op = "store"
    /\ tbl_log[2].op = "store"
    /\ tbl_log[3].op = "probe"
    /\ tbl_log[1].hash # tbl_log[2].hash
    /\ tbl_log[1].entry # tbl_log[2].entry
    /\ tbl_log[3].hash = tbl_log[2].hash
    /\ tbl_log[3].result = Some(tbl_log[2].entry)

MagicSpecInit == MgInit /\ DrvInit /\ PosIdle /\ SrchIdle /\ CmdIdle /\ FenIdle /\ TblIdle

MagicNext ==
    \/ InitMagics
    \/ LookupMagic

MagicSpec == MagicSpecInit /\ [][MagicNext]_vars

\* The squares strictly between two squares of one rank, file or diagonal
SquaresBetween(a, b) ==
    LET steps == Max(Max(RankOf(a) - RankOf(b), RankOf(b) - RankOf(a)),
                     Max(FileOf(a) - FileOf(b), FileOf(b) - FileOf(a)))
        dr == (RankOf(b) - RankOf(a)) \div steps
        df == (FileOf(b) - FileOf(a)) \div steps
    IN  { SquareNew(FileOf(a) + k * df, RankOf(a) + k * dr) : k \in 1..(steps - 1) }

\* b is on a ray of the slider from a
OnRay(slider, a, b) ==
    /\ a # b
    /\ IF slider = "bishop"
       THEN RankOf(a) - RankOf(b) \in { FileOf(a) - FileOf(b), FileOf(b) - FileOf(a) }
       ELSE RankOf(a) = RankOf(b) \/ FileOf(a) = FileOf(b)

\* The squares reached along the rays up to and including the first occupied one
RayAttacks(slider, sq, occupied) ==
    { t \in Squares : OnRay(slider, sq, t) /\ SquaresBetween(sq, t) \cap occupied = { } }

\* C27: after init_magics, for every square and every occupancy the magic lookup
\* returns the ray-walk attack set of the slow generator (the squares along each
\* ray up to and including the first occupied one, never the origin), and the
\* index used lies in the square's own segment of the attack table.
C27_MagicLookupIsRayWalk ==
    \A n \in 1..Len(mg_lookups) :
        LET l == mg_lookups[n]
            mask == relevant_mask(l.slider, l.square)
            offset == SegmentOffset(l.slider, l.square)
        IN  \A i \in DOMAIN l.found :
              LET occupied == pdep_neon(i, mask) \cup l.extra
              IN  /\ l.found[i].attacks = Some(generate_attacks_slow(l.slider, l.square, occupied))
                  /\ l.found[i].attacks = Some(RayAttacks(l.slider, l.square, occupied))
                  /\ l.found[i].index >= offset
                  /\ l.found[i].index < offset + NumSubsets(mask)

C27_Witness ==
    /\ mg_lookups # << >>
    /\ mg_lookups[1].slider = "rook"
    /\ mg_lookups[1].extra # { }
    /\ \E i \in DOMAIN mg_lookups[1].found : \E j \in DOMAIN mg_lookups[1].found :
         /\ mg_lookups[1].found[i].attacks # mg_lookups[1].found[j].attacks
         /\ mg_lookups[1].found[i].attacks # Some({ })

(* Properties of the quiescence search and of the castling rights *)

\* C28: at a node reached by a move, the stand-pat value that quiescence_search
\* compares with alpha and beta is the static evaluation from the perspective of
\* the side to move, so it is positive when that side stands better, for both
\* colours.
C28_StandPatFromSideToMove ==
    undo_stack # << >> =>
        /\ StandPat(board.side_to_move, board) = evaluate(board)
        /\ evaluate(board) > 0 => StandPat(board.side_to_move, board) > 0

\* The home squares of the king and the rook that a castling right is about
RightHome(right) ==
    CASE right = WHITE_KING -> [color |-> White, king |-> E1, rook |-> H1]
      [] right = WHITE_QUEEN -> [color |-> White, king |-> E1, rook |-> A1]
      [] right = BLACK_KING -> [color |-> Black, king |-> E8, rook |-> H8]
      [] right = BLACK_QUEEN -> [color |-> Black, king |-> E8, rook |-> A8]

\* Every right held has its king and its rook on their home squares
RightsImplyHome(pos) ==
    \A right \in pos.castling_rights :
        /\ RightHome(right).king \in piece_bb(pos, King, RightHome(right).color)
        /\ RightHome(right).rook \in piece_bb(pos, Rook, RightHome(right).color)

\* C29: in every position reached from the standard start position by make_move
\* calls, no right was added and a side holds a castling right only while its
\* king and the matching rook are on their home squares.
C29_RightsOnlyWithKingAndRookHome ==
    (cmd_state = "handled" /\ cmd_input.fen = set_startpos) =>
        /\ cmd_position.castling_rights \subseteq set_startpos.castling_rights
        /\ RightsImplyHome(cmd_position)

\* The same along the legal moves of the search tree
RightsAtNodes == undo_stack # << >> => (RightsImplyHome(Head(undo_stack).before) => RightsImplyHome(board))

(* The positions that the search visits *)

RECURSIVE QuiescenceVisits(_, _, _, _)
RECURSIVE QuiescenceLoopVisits(_, _, _, _, _, _, _)

\* QuiescenceLoop with the positions it makes collected: score is its value,
\* visited the positions reached by make_move in it and below it, each with the
\* colour that moved
QuiescenceLoopVisits(captures, i, alpha, beta, color, pos, visited) ==
    IF i > Len(captures) THEN [score |-> alpha, visited |-> visited]
    ELSE LET child_position == make_move(pos, captures[i]).pos
             child == QuiescenceVisits(-beta, -alpha, opposite(color), child_position)
             score == -child.score
             seen == visited \cup child.visited
                     \cup { [pos |-> child_position, mover |-> color, mv |-> captures[i]] }
         IN  IF score >= beta THEN [score |-> beta, visited |-> seen]
             ELSE QuiescenceLoopVisits(captures, i + 1, Max(alpha, score), beta, color, pos,
                                       seen)

\* quiescence_search with the positions it visits
QuiescenceVisits(alpha, beta, color, pos) ==
    LET stand_pat == StandPat(color, pos)
        keep(mv) == IsCapture(pos, color, mv)
    IN  IF stand_pat >= beta THEN [score |-> beta, visited |-> { }]
        ELSE QuiescenceLoopVisits(SelectSeq(NodePseudoLegal(pos, color), keep), 1,
                                  Max(alpha, stand_pat), beta, color, pos, { })

\* The move loop of alpha_beta_search at depth 1 on an empty table with no time
\* limit, from the i-th legal move: the positions it makes and those the
\* quiescence searches below them make
RECURSIVE LeafVisits(_, _, _, _, _, _)
LeafVisits(moves, i, alpha, beta, color, pos) ==
    IF i > Len(moves) THEN { }
    ELSE LET child_position == make_move(pos, moves[i]).pos
             child == QuiescenceVisits(-beta, -alpha, opposite(color), child_position)
             alpha2 == Max(alpha, -child.score)
         IN  { [pos |-> child_position, mover |-> color, mv |-> moves[i]] }
             \cup child.visited
             \cup (IF alpha2 >= beta THEN { }
                   ELSE LeafVisits(moves, i + 1, alpha2, beta, color, pos))

\* The positions visited by the first pass of iterative_deepening
FirstPassVisits(root) ==
    LeafVisits(NodeLegalMoves(root, root.side_to_move), 1, ALPHA_INIT, BETA_INIT,
               root.side_to_move, root)

HasBothKings(pos) == piece_bb(pos, King, White) # { } /\ piece_bb(pos, King, Black) # { }

\* C30: every move the search applies, the captures of quiescence_search
\* included, is legal: no position visited by a search from a position with
\* both kings lacks a king or has the side that just moved left in check.
C30_SearchVisitsLegalPositions ==
    (phase = "returned" /\ clock = Never /\ depth > 1 /\ HasBothKings(root_position)) =>
        \A v \in FirstPassVisits(root_position) :
            /\ HasBothKings(v.pos)
            /\ \A k \in piece_bb(v.pos, King, v.mover) :
                 ~SquareAttackedBy(v.pos, k, opposite(v.mover))

====
